---- MODULE Spec2Model ----
(***************************************************************************)
(* State-machine model of sqlit's query execution substrate:               *)
(*   - the process worker (domains/query/app/process_worker.py),           *)
(*   - its client (domains/query/app/process_worker_client.py),            *)
(*   - the application's query execution mixin                             *)
(*     (domains/query/ui/mixins/query_execution.py) and the process-worker *)
(*     settings handlers of the application (domains/shell/app/main.py).   *)
(* The duplex pipe between client and worker is a pair of FIFO queues.     *)
(***************************************************************************)
EXTENDS Integers, Sequences, FiniteSets, TLC

\* ------------------------------------------------------------------ bounds
MaxReq == 2          \* query requests the user submits in one behaviour
MaxClients == 2      \* worker clients (worker processes) started in one behaviour
MaxCmds == 1         \* settings / connection commands the user gives in one behaviour
MaxPeerFrames == 1   \* frames written to the pipes by an arbitrary peer (SpecOpen)
MaxOpenCmds == 0      \* commands the user gives in one behaviour of SpecOpen
MaxLifeCmds == 4     \* commands the user gives in one behaviour of SpecLife
MaxCancelCmds == 2   \* commands the user gives in one behaviour of SpecCancel
MaxTunnelCmds == 3   \* commands the user gives in one behaviour of SpecTunnel
MaxTextLen == 3      \* characters of an editor text (SpecMotion)
MaxBracketLen == 4   \* characters of a text of brackets (SpecBracket)
MaxWalkCmds == 5     \* motions applied one after the other (SpecWalk)
MaxEditLen == 2      \* characters of the editor's first text (SpecEdit)
MaxEditCmds == 4     \* edit commands the user gives in one behaviour of SpecEdit
MaxSaved == 2        \* saved connections of the picker's host (SpecPicker)
MaxCursors == 3      \* cursors asked of the Azure SQL adapter (SpecAzure)
MaxCommandLen == 1   \* characters of the command buffer (SpecCommand)

\* --------------------------------------------------------------- constants
NoId == 0            \* Python None for a query id / request handle
NoPort == 0          \* Python None for DetectedContainer.port
NoTimer == -1        \* Python None for the idle timer handle
NoTunnel == "none"   \* _tunnel_key(config) is None
TunnelKeys == {"t1"}
Dbs == {"main", "other"}
ConfigDb == "main"   \* the database of the saved connection's endpoint
Ids == 1..(MaxReq + 1)
Reqs == 1..MaxReq

\* -------------------------------------------------------------- query text
\* A query text is a sequence of tokens: a statement (by kind) or the
\* separator ";".  "commit" stands for COMMIT / END / ROLLBACK.
StmtTokens == {"begin", "commit", "select"}
UseTexts == {<<"use_other">>}

\* single statements, two-statement scripts, and a text with no statement
PlainTexts ==
  {<<s>> : s \in StmtTokens} \cup {<<s, ";", "select">> : s \in {"begin", "select"}}
    \cup {<<";">>}

QueryTexts == PlainTexts \cup UseTexts

IsSep(tok) == tok = ";"

IsStmt(tok) == ~IsSep(tok)

split_statements(t) == SelectSeq(t, IsStmt)

parse_use_statement(t) == IF t = <<"use_other">> THEN "other" ELSE ""

is_transaction_start(s) == s = "begin"

is_transaction_end(s) == s = "commit"

\* ------------------------------------------------------------------ frames
ExecFrame(id, q, tk, dbt) ==
  [type |-> "exec", id |-> id, query |-> q, tunnel |-> tk, db_type |-> dbt, msg |-> ""]

CancelFrame(id) ==
  [type |-> "cancel", id |-> id, query |-> <<>>, tunnel |-> NoTunnel, db_type |-> "", msg |-> ""]

ShutdownFrame ==
  [type |-> "shutdown", id |-> NoId, query |-> <<>>, tunnel |-> NoTunnel, db_type |-> "", msg |-> ""]

Reply(ty, id, m) ==
  [type |-> ty, id |-> id, query |-> <<>>, tunnel |-> NoTunnel, db_type |-> "", msg |-> m]

VARIABLES
  \* worker process (_WorkerState, run_process_worker)
  worker,             \* "none" | "up" | "exited"
  current_id,         \* _WorkerState.current_id (NoId = None)
  is_cancelled,       \* current_query.is_cancelled
  current_thread,     \* "none" | "running" | "replied" | "dead"
  tunnel_key,         \* _WorkerState.tunnel_key
  tunnel,             \* _WorkerState.tunnel: the serial number of the tunnel object, NoId = None
  tunnels_running,    \* the tunnels of this worker that were created and not stopped: <<serial, key>>
  tunnels_created,    \* how many tunnels this worker has created
  c2w,                \* pipe, client -> worker
  w2c,                \* pipe, worker -> client
  \* client object held by the application
  client,             \* _process_worker_client: generation number, NoId = None
  clientGen,          \* clients constructed so far
  next_id,            \* ProcessWorkerClient._next_id
  client_current_id,  \* ProcessWorkerClient._current_id
  \* application
  connected,          \* current_connection / current_config present
  configTunnel,       \* tunnel key of current_config
  activeDb,           \* _get_effective_database() ("" = None)
  targetDb,           \* _query_target_database ("" = None)
  process_worker,     \* runtime.process_worker
  auto_shutdown_s,    \* runtime.process_worker_auto_shutdown_s
  query_executing,
  query_worker,       \* _query_worker: request of the Textual worker handle
  txExec,             \* _transaction_executor: executor identity, NoId = None
  txConfig,           \* _transaction_executor_config (its database)
  inTx,               \* _transaction_executor.in_transaction
  execCount,          \* TransactionExecutor objects constructed so far
  last_used,          \* _process_worker_last_used: the n-th reading of the clock (0 = None)
  idle_timer,         \* _process_worker_idle_timer: captured last_used, NoTimer = None
  stale_timers,       \* timers whose stop() raised: captured last_used values
  nreq,               \* requests submitted so far
  tasks,              \* per request: the coroutine and its to_thread thread
  \* history
  execsSeen,          \* ids of the exec frames the worker has received
  started,            \* ids for which the worker started a query thread
  replyCount,         \* per id, response frames the worker has sent
  cancelledAtReply,   \* is_cancelled as it was when run() last chose its response
  fired,              \* the last_used value captured by the idle-timer callback run last
  ncmd,               \* settings / connection commands given so far
  peerW,              \* frames an arbitrary peer has written to the worker
  peerC,              \* frames an arbitrary peer has written to the client
  \* worker lifecycle
  warm_on_idle,       \* runtime.process_worker_warm_on_idle
  warm_pending,       \* the idle scheduler holds a "process-worker-warm" callback
  exited,             \* on_unmount has run
  cmdBudget,          \* commands the user gives in this behaviour
  \* operations action_cancel_operation looks at
  cancellable_query,  \* _cancellable_query: "none" (None) | "live" | "cancelled"
  schema_indexing,    \* _schema_indexing
  schema_worker,      \* _schema_worker is not None
  schema_task,        \* the schema worker itself: "none" | "running" | "cancelled"
  cancel_report,      \* the last notification of action_cancel_operation
  \* key routing
  ctx,                \* the InputContext snapshot of _get_input_context
  key_pressed,        \* the key of the last on_key ("" = none since the snapshot)
  resolved,           \* the action on_key resolved it to ("none" = None)
  checked,            \* the action name of the last check_action ("" = none)
  verdict,            \* its verdict
  command,            \* _command_mode, _command_buffer and what the last key event did with them
  leader_cancelled,   \* the last on_key called _cancel_leader_pending and resolved again
  \* the query editor and the motion functions
  ed_text,            \* the text handed to the motion: a sequence of characters
  cursor_row,         \* the cursor row handed to it (may lie outside the text)
  cursor_col,         \* the cursor column handed to it (may lie outside the line)
  motion_key,         \* the MOTIONS key last applied ("" = none yet)
  motion_char,        \* the char argument it was given ("" = None)
  motion_pos,         \* MotionResult.position of that call: <<row, col>>
  undo_snapshots,     \* UndoHistory: the snapshots pushed, oldest first
  undo_index,         \* UndoHistory: the pointer (snapshots below it can be undone)
  edits,              \* edit commands given so far
  last_edit,          \* "operator" | "undo" (right after it) | "redo" (right after that) | "none"
                      \* | "missing" (MOTIONS.get gave None) | "KeyError" (MOTIONS[key] raised)
  before_op,          \* text and cursor just before the last operator
  after_op,           \* text and cursor just after it
  trail,              \* the keys of the motions applied one after the other (SpecWalk)
  \* screens and adapters outside the query path
  picker,             \* DockerConnectionResultHandler: host.connections, the container, the config used
  discovery,          \* ConnectionPickerScreen: the discovery sources and their workers
  driver_import,      \* one import_driver_module call: its arguments and how it ended
  azure,              \* AzureSQLAdapter: the connection, the cursors handed out, the statements run
  pwc                 \* one ProcessWorkerClient called by any caller (SpecClient)

tunnelVars == <<tunnel_key, tunnel, tunnels_running, tunnels_created>>
workerVars == <<worker, current_id, is_cancelled, current_thread, tunnelVars>>
pipeVars == <<c2w, w2c>>
clientVars == <<client, clientGen, next_id, client_current_id>>
settingVars == <<process_worker, auto_shutdown_s>>
connVars == <<connected, configTunnel, activeDb, targetDb>>
txVars == <<txExec, txConfig, inTx, execCount>>
timerVars == <<last_used, idle_timer, stale_timers>>
histVars == <<execsSeen, started, replyCount, cancelledAtReply>>
peerVars == <<peerW, peerC>>
lifeVars == <<warm_on_idle, warm_pending, exited, cmdBudget>>
cancelVars == <<cancellable_query, schema_indexing, schema_worker, schema_task, cancel_report>>
keyVars == <<ctx, key_pressed, resolved, checked, verdict, command, leader_cancelled>>
undoVars == <<undo_snapshots, undo_index, edits, last_edit, before_op, after_op>>
editVars == <<ed_text, cursor_row, cursor_col, motion_key, motion_char, motion_pos, undoVars,
              trail>>
screenVars == <<picker, discovery, driver_import, azure, pwc>>
uiVars == <<keyVars, editVars, screenVars>>
extVars == <<cancelVars, uiVars>>
queryVars == <<worker, current_id, is_cancelled, current_thread, tunnelVars, c2w, w2c,
               client, clientGen, next_id, client_current_id,
               connected, configTunnel, activeDb, targetDb, process_worker, auto_shutdown_s,
               query_executing, query_worker, txExec, txConfig, inTx, execCount,
               last_used, idle_timer, stale_timers, nreq, tasks,
               execsSeen, started, replyCount, cancelledAtReply, fired, ncmd,
               peerW, peerC, lifeVars, cancelVars>>
appVars == <<queryVars, screenVars>>

vars == <<worker, current_id, is_cancelled, current_thread, tunnelVars, c2w, w2c,
          client, clientGen, next_id, client_current_id,
          connected, configTunnel, activeDb, targetDb, process_worker, auto_shutdown_s,
          query_executing, query_worker, txExec, txConfig, inTx, execCount,
          last_used, idle_timer, stale_timers, nreq, tasks,
          execsSeen, started, replyCount, cancelledAtReply, fired, ncmd,
          peerW, peerC, lifeVars, extVars>>

\* ------------------------------------------------------------------ tasks
\* One record per request r: the _run_query_async coroutine ("coro") and the
\* asyncio.to_thread thread it awaits ("thr").
NoTask ==
  [coro |-> "none", route |-> "none", thr |-> "none", query |-> <<>>, gen |-> NoId,
   id |-> NoId, exec |-> NoId, out |-> "", err |-> "", frameId |-> NoId, note |-> "",
   startFailed |-> FALSE]

DoneTask == [NoTask EXCEPT !.coro = "done", !.thr = "over"]

\* A request whose coroutine has ended and whose thread is over holds no state.
Settle(t) == IF t.coro = "done" /\ t.thr \in {"over", "none"} THEN DoneTask ELSE t

\* ============================================================== the worker
\* _WorkerState.send: the frame is written; exceptions are swallowed.
SendReply(ty, id, m) ==
  /\ w2c' = Append(w2c, Reply(ty, id, m))
  /\ replyCount' = [replyCount EXCEPT ![id] = @ + 1]

NoReply == UNCHANGED <<w2c, replyCount>>

\* _WorkerState._cleanup_current: a finished thread is joined and forgotten.
CleanThread == IF current_thread = "dead" THEN "none" ELSE current_thread

CleanId == IF current_thread = "dead" THEN NoId ELSE current_id

CleanCancelled == IF current_thread = "dead" THEN FALSE ELSE is_cancelled

\* fault: the loop never regards the query thread as alive
ThreadAliveNever(th) == FALSE

\* current_thread is not None and current_thread.is_alive()
ThreadAlive(th) == th \in {"running", "replied"}

\* fault: the old tunnel is dropped without being stopped
StoppedTunnelLeft(running, t) == running

\* tunnel.stop() of the tunnel the worker holds
StoppedTunnel(running, t) == {p \in running : p[1] # t}

\* _WorkerState._close_tunnel
CloseTunnel ==
  /\ tunnel' = NoId
  /\ tunnel_key' = NoTunnel
  /\ tunnels_running' = StoppedTunnel(tunnels_running, tunnel)

\* fault: the loop ends with no finally block
WorkerEndsBare ==
  /\ worker' = "exited"
  /\ current_thread' = CleanThread
  /\ current_id' = CleanId
  /\ is_cancelled' = CleanCancelled
  /\ UNCHANGED <<tunnelVars>>

\* the finally block of run_process_worker: cancel the current query, close
\* the tunnel, close the pipe; the process ends (its daemon thread with it).
WorkerFinally ==
  /\ worker' = "exited"
  /\ current_thread' = CleanThread
  /\ current_id' = CleanId
  /\ is_cancelled' = IF CleanId # NoId THEN TRUE ELSE CleanCancelled
  /\ CloseTunnel
  /\ UNCHANGED tunnels_created

\* _WorkerState._ensure_tunnel: the key the worker holds afterwards.
EnsureTunnelKey(key, created) ==
  IF key = NoTunnel THEN NoTunnel
  ELSE IF key # tunnel_key THEN (IF created THEN key ELSE NoTunnel)
  ELSE tunnel_key

\* _WorkerState._ensure_tunnel with create_ssh_tunnel succeeding
EnsureTunnel(key) ==
  /\ tunnel_key' = EnsureTunnelKey(key, TRUE)
  /\ IF key = NoTunnel THEN
       /\ tunnel' = NoId
       /\ tunnels_running' = StoppedTunnel(tunnels_running, tunnel)
       /\ UNCHANGED tunnels_created
     ELSE IF key # tunnel_key THEN
       /\ tunnel' = tunnels_created + 1
       /\ tunnels_created' = tunnels_created + 1
       /\ tunnels_running' =
            StoppedTunnel(tunnels_running, tunnel) \cup {<<tunnels_created + 1, key>>}
     ELSE UNCHANGED <<tunnel, tunnels_running, tunnels_created>>

\* create_ssh_tunnel raises
EnsureTunnelRaises(key, created) == key # NoTunnel /\ key # tunnel_key /\ ~created

\* get_provider(db_type) knows the database type
KnownDbTypes == {"known"}

\* fault: the worker does not look at the number of statements
RefusesNoQuery(query) == FALSE

\* _start_query, line 92: len(split_statements(query)) > 1
RefusesMultiStatement(query) == Len(split_statements(query)) > 1

\* _WorkerState._start_query
StartQuery(m, created) ==
  IF m.db_type = "" THEN
    /\ SendReply("error", m.id, "Missing database type for process worker.")
    /\ current_thread' = CleanThread /\ current_id' = CleanId /\ is_cancelled' = CleanCancelled
    /\ UNCHANGED <<worker, tunnelVars, started>>
  ELSE IF RefusesMultiStatement(m.query) THEN
    /\ SendReply("error", m.id, "Multi-statement queries are not supported in the process worker.")
    /\ current_thread' = CleanThread /\ current_id' = CleanId /\ is_cancelled' = CleanCancelled
    /\ UNCHANGED <<worker, tunnelVars, started>>
  ELSE IF m.db_type \notin KnownDbTypes THEN
    /\ SendReply("error", m.id, "Unknown database type for process worker")
    /\ current_thread' = CleanThread /\ current_id' = CleanId /\ is_cancelled' = CleanCancelled
    /\ UNCHANGED <<worker, tunnelVars, started>>
  ELSE IF EnsureTunnelRaises(m.tunnel, created) THEN
    \* the exception leaves _start_query and the loop of run_process_worker
    /\ NoReply
    /\ WorkerFinally
    /\ UNCHANGED started
  ELSE
    /\ NoReply
    /\ EnsureTunnel(m.tunnel)
    /\ current_id' = m.id
    /\ is_cancelled' = FALSE
    /\ current_thread' = "running"
    /\ started' = started \cup {m.id}
    /\ UNCHANGED worker

\* fault: a cancel frame cancels the running query whatever id it names
CancelCurrentAnyId(id) ==
  /\ current_thread' = CleanThread
  /\ current_id' = CleanId
  /\ is_cancelled' = IF CleanId # NoId THEN TRUE ELSE CleanCancelled
  /\ UNCHANGED <<worker, tunnelVars>>

\* _WorkerState._cancel_current
CancelCurrent(id) ==
  /\ current_thread' = CleanThread
  /\ current_id' = CleanId
  /\ is_cancelled' = IF CleanId = id /\ CleanId # NoId THEN TRUE ELSE CleanCancelled
  /\ UNCHANGED <<worker, tunnelVars>>

\* run_process_worker: one turn of the loop with no frame to read.
WorkerPoll ==
  /\ worker = "up"
  /\ current_thread = "dead"
  /\ current_thread' = CleanThread
  /\ current_id' = CleanId
  /\ is_cancelled' = CleanCancelled
  /\ UNCHANGED <<worker, tunnelVars, pipeVars, clientVars, settingVars, connVars, txVars,
                 timerVars, histVars, peerVars, query_executing, query_worker,
                 nreq, tasks, fired, ncmd>>
  /\ UNCHANGED <<lifeVars, extVars>>

\* run_process_worker: one turn of the loop that reads a frame.
WorkerRecv ==
  /\ worker = "up"
  /\ c2w # <<>>
  /\ \E created \in BOOLEAN :
       LET m == Head(c2w) IN
       /\ c2w' = Tail(c2w)
       /\ execsSeen' = IF m.type = "exec" THEN execsSeen \cup {m.id} ELSE execsSeen
       /\ UNCHANGED cancelledAtReply
       /\ CASE m.type = "shutdown" ->
                 /\ WorkerFinally
                 /\ NoReply
                 /\ UNCHANGED started
            [] m.type = "exec" ->
                 IF ThreadAlive(CleanThread) THEN
                   /\ SendReply("error", m.id, "Worker is busy.")
                   /\ UNCHANGED <<workerVars, started>>
                 ELSE StartQuery(m, created)
            [] m.type = "cancel" ->
                 /\ CancelCurrent(m.id)
                 /\ NoReply
                 /\ UNCHANGED started
            [] OTHER ->
                 /\ current_thread' = CleanThread /\ current_id' = CleanId
                 /\ is_cancelled' = CleanCancelled
                 /\ NoReply
                 /\ UNCHANGED <<worker, tunnelVars, started>>
  /\ UNCHANGED <<clientVars, settingVars, connVars, txVars, timerVars, peerVars,
                 query_executing, query_worker, nreq, tasks, fired, ncmd>>
  /\ UNCHANGED <<lifeVars, extVars>>

\* CancellableQuery.execute ends: it returns a QueryResult or a NonQueryResult,
\* or it raises an exception with one of these messages.
ExecuteOutcomes == {"query", "non_query", "driver error", "Query cancelled"}

\* "cancelled" in str(exc).lower()
MentionsCancelled(msg) == msg = "Query cancelled"

\* fault: run() looks only at the text of the exception
RunReplyTypeByMessage(outcome, cancelled) ==
  IF outcome \in {"query", "non_query"} THEN "result"
  ELSE IF MentionsCancelled(outcome) THEN "cancelled"
  ELSE "error"

\* the reply type chosen by run() for an outcome of cancellable.execute
RunReplyType(outcome, cancelled) ==
  IF outcome \in {"query", "non_query"} THEN "result"
  ELSE IF cancelled \/ MentionsCancelled(outcome) THEN "cancelled"
  ELSE "error"

\* _WorkerState._start_query.run: the thread sends its one response.
ThreadRun ==
  /\ worker = "up"
  /\ current_thread = "running"
  /\ \E outcome \in ExecuteOutcomes :
       SendReply(RunReplyType(outcome, is_cancelled), current_id, "")
  /\ current_thread' = "replied"
  /\ cancelledAtReply' = is_cancelled
  /\ UNCHANGED <<worker, current_id, is_cancelled, tunnelVars, c2w, clientVars, settingVars,
                 connVars, txVars, timerVars, peerVars, query_executing, query_worker,
                 nreq, tasks, fired, ncmd, execsSeen, started>>
  /\ UNCHANGED <<lifeVars, extVars>>

\* the thread of run() terminates: is_alive() becomes false.
ThreadExit ==
  /\ worker = "up"
  /\ current_thread = "replied"
  /\ current_thread' = "dead"
  /\ UNCHANGED <<worker, current_id, is_cancelled, tunnelVars, pipeVars, clientVars,
                 settingVars, connVars, txVars, timerVars, histVars, peerVars,
                 query_executing, query_worker, nreq, tasks, fired, ncmd>>
  /\ UNCHANGED <<lifeVars, extVars>>

\* ============================================================== the client
\* A client object the application has closed and dropped: close() is the only
\* way the application lets go of a client, so an older generation is closed.
Closed(g) == g # client

\* _execute_lock of client generation g is held by some execute call
LockHeld(g) == \E x \in Reqs : tasks[x].gen = g /\ tasks[x].thr \in {"assigned", "sent"}

Finish(r, kind, message, fid) ==
  tasks' = [tasks EXCEPT ![r] = Settle([@ EXCEPT !.thr = "over", !.out = kind,
                                                 !.err = message, !.frameId = fid])]

\* fault: _next_id is not advanced
NextIdKept(n) == n

\* self._next_id += 1
NextIdAfter(n) == n + 1

\* ProcessWorkerClient.execute, lines 99-105: take the lock, refuse when closed,
\* assign the id.
ClientBegin(r) ==
  /\ tasks[r].thr = "queued"
  /\ ~LockHeld(tasks[r].gen)
  /\ IF Closed(tasks[r].gen) THEN
       /\ Finish(r, "error", "Worker is closed.", NoId)
       /\ UNCHANGED <<next_id, client_current_id>>
     ELSE
       /\ next_id' = NextIdAfter(next_id)
       /\ client_current_id' = next_id
       /\ tasks' = [tasks EXCEPT ![r] = [@ EXCEPT !.thr = "assigned", !.id = next_id]]
  /\ UNCHANGED <<workerVars, pipeVars, client, clientGen, settingVars, connVars, txVars,
                 timerVars, histVars, peerVars, query_executing, query_worker,
                 nreq, fired, ncmd>>
  /\ UNCHANGED <<lifeVars, extVars>>

\* ProcessWorkerClient.execute, lines 107-115: send the exec frame.  _send raises
\* on a closed or broken connection; the exception leaves execute before the
\* try block, so _current_id stays set.
ClientSend(r) ==
  /\ tasks[r].thr = "assigned"
  /\ IF Closed(tasks[r].gen) \/ worker # "up" THEN
       /\ Finish(r, "exception", "send failed", NoId)
       /\ UNCHANGED c2w
     ELSE
       /\ c2w' = Append(c2w, ExecFrame(tasks[r].id, tasks[r].query, configTunnel, "known"))
       /\ tasks' = [tasks EXCEPT ![r] = [@ EXCEPT !.thr = "sent"]]
  /\ UNCHANGED <<workerVars, w2c, clientVars, settingVars, connVars, txVars, timerVars,
                 histVars, peerVars, query_executing, query_worker, nreq, fired, ncmd>>
  /\ UNCHANGED <<lifeVars, extVars>>

\* fault: execute takes whatever frame comes first
IdMismatchNever(m, query_id) == FALSE

\* message.get("id") != query_id
IdMismatch(m, query_id) == m.id # query_id

\* the outcome execute builds from a frame of its own id ("" : none, keep looping)
OutcomeOf(m) ==
  IF m.type \in {"result", "cancelled", "error"} THEN m.type ELSE ""

\* ProcessWorkerClient.execute, lines 117-140: one turn of the recv loop.
ClientRecv(r) ==
  /\ tasks[r].thr = "sent"
  /\ Closed(tasks[r].gen) \/ w2c # <<>> \/ worker = "exited"
  /\ IF Closed(tasks[r].gen) THEN
       \* recv on a connection closed by close(): an OSError leaves execute
       /\ Finish(r, "exception", "handle is closed", NoId)
       /\ UNCHANGED <<w2c, client_current_id>>
     ELSE IF w2c # <<>> THEN
       LET m == Head(w2c) IN
       /\ w2c' = Tail(w2c)
       /\ IF IdMismatch(m, tasks[r].id) \/ OutcomeOf(m) = "" THEN
            UNCHANGED <<tasks, client_current_id>>
          ELSE
            /\ Finish(r, OutcomeOf(m), m.msg, m.id)
            /\ client_current_id' = NoId
     ELSE
       \* EOFError
       /\ Finish(r, "error", "Worker connection closed.", NoId)
       /\ client_current_id' = NoId
       /\ UNCHANGED w2c
  /\ UNCHANGED <<workerVars, c2w, client, clientGen, next_id, settingVars, connVars, txVars,
                 timerVars, histVars, peerVars, query_executing, query_worker,
                 nreq, fired, ncmd>>
  /\ UNCHANGED <<lifeVars, extVars>>

\* ========================================================= the application
\* ---- idle auto-shutdown timer
\* _clear_process_worker_auto_shutdown: timer.stop() is called inside
\* try/except and the handle is dropped.  stop() may raise, and a callback
\* already due is not recalled: the old timer may still fire (or never does).
StaleAfterClear ==
  IF idle_timer # NoTimer THEN stale_timers \cup {idle_timer} ELSE stale_timers

\* time.monotonic(): a reading later than every earlier one.  The only
\* readings the application keeps are those in _process_worker_last_used.
Monotonic == last_used + 1

\* _arm_process_worker_auto_shutdown with the setting at secs, entered with
\* _process_worker_last_used = lu: the values of <<last_used, idle_timer,
\* stale_timers>> it leaves.  A timer is identified by the last_used value its
\* callback captured.
Armed(secs, lu, hasClient) ==
  IF secs <= 0 THEN
    [last_used |-> lu, idle_timer |-> NoTimer, stale_timers |-> StaleAfterClear]
  ELSE IF lu = 0 /\ hasClient THEN
    [last_used |-> Monotonic, idle_timer |-> Monotonic, stale_timers |-> StaleAfterClear]
  ELSE
    [last_used |-> lu, idle_timer |-> lu, stale_timers |-> StaleAfterClear]

\* _touch_process_worker: read the clock, then arm.
Touched(hasClient) == Armed(auto_shutdown_s, Monotonic, hasClient)

SetTimers(t) ==
  /\ last_used' = t.last_used
  /\ idle_timer' = t.idle_timer
  /\ stale_timers' = t.stale_timers

\* fault: the callback does not compare last_used
MaybeShutdownIgnoringUse(lu) == lu # 0 /\ ~query_executing

\* _maybe_shutdown of a timer that captured lu: it goes on to close the client
MaybeShutdownCloses(lu) == lu # 0 /\ ~query_executing /\ last_used = lu

\* ---- the worker client held by the application
\* a new ProcessWorkerClient: a fresh process, a fresh pipe, ids from 1
SpawnClient ==
  /\ client' = clientGen + 1
  /\ clientGen' = clientGen + 1
  /\ next_id' = 1
  /\ client_current_id' = NoId
  /\ worker' = "up"
  /\ current_id' = NoId
  /\ is_cancelled' = FALSE
  /\ current_thread' = "none"
  /\ tunnel_key' = NoTunnel
  /\ tunnel' = NoId
  /\ tunnels_running' = {}
  /\ tunnels_created' = 0
  /\ c2w' = <<>>
  /\ w2c' = <<>>
  /\ execsSeen' = {}
  /\ started' = {}
  /\ replyCount' = [i \in Ids |-> 0]
  /\ cancelledAtReply' = FALSE

\* ProcessWorkerClient.close: the shutdown frame is sent, the connection closed
\* and the process joined or terminated; the worker runs its finally block.
CloseClient ==
  /\ client' = NoId
  /\ UNCHANGED <<clientGen, next_id, client_current_id>>
  /\ IF worker = "up"
     THEN WorkerFinally
     ELSE UNCHANGED workerVars
  /\ c2w' = <<>>
  /\ w2c' = <<>>
  /\ UNCHANGED <<execsSeen, started, replyCount, cancelledAtReply>>

\* _close_process_worker_client
CloseProcessWorkerClient ==
  IF client = NoId
  THEN UNCHANGED <<workerVars, pipeVars, clientVars, timerVars, histVars>>
  ELSE /\ CloseClient
       /\ idle_timer' = NoTimer
       /\ stale_timers' = StaleAfterClear
       /\ UNCHANGED last_used

\* ---- the transaction executor
RECURSIVE TxAfter(_, _)
\* TransactionExecutor.in_transaction after the statements ran successfully
TxAfter(b, stmts) ==
  IF stmts = <<>> THEN b
  ELSE TxAfter(IF is_transaction_start(Head(stmts)) THEN TRUE
               ELSE IF is_transaction_end(Head(stmts)) THEN FALSE ELSE b,
               Tail(stmts))

\* QueryExecutionMixin.in_transaction
in_transaction == txExec # NoId /\ inTx

\* _run_query_async, lines 300-315: the database of the effective config
EffectiveDb ==
  LET cfg1 == IF targetDb # "" /\ targetDb # ConfigDb THEN targetDb ELSE ConfigDb
  IN IF activeDb # "" /\ activeDb # cfg1 /\ targetDb = "" THEN activeDb ELSE cfg1

\* _get_transaction_executor creates a new executor for config db
NeedsNewExecutor(db) == txExec = NoId \/ txConfig # db

\* fault: routing does not read in_transaction
UseProcessWorkerOutsideTx(stmts, inTransaction) ==
  /\ process_worker
  /\ ~(stmts # <<>> /\ (is_transaction_start(stmts[1]) \/ is_transaction_end(stmts[1])))
  /\ ~(Len(stmts) > 1)

\* _run_query_async, lines 339-345: the query goes to the process worker
UseProcessWorker(stmts, inTransaction) ==
  /\ process_worker
  /\ ~(stmts # <<>> /\ (inTransaction \/ is_transaction_start(stmts[1])
                                      \/ is_transaction_end(stmts[1])))
  /\ ~(Len(stmts) > 1)

\* fault: the fallback is notified as a warning
FallbackSeverityWarning == "warning"

\* severity of the notification of lines 350-360
FallbackSeverity == "error"

\* fault: the cancellation is not delivered to the coroutine
CancelNotDelivered(t) == t

\* _query_worker.cancel() and run_worker(..., exclusive=True): a coroutine not
\* yet started never runs; one that is awaiting gets CancelledError when it is
\* resumed.
Cancel(t) ==
  IF t.coro = "pending" THEN DoneTask
  ELSE IF t.coro = "await" THEN [t EXCEPT !.coro = "cancelling"]
  ELSE t

CancelAll == [x \in Reqs |-> Cancel(tasks[x])]

\* _execute_query_common
ExecuteQuery(q) ==
  /\ connected
  /\ ~query_executing
  /\ nreq < MaxReq
  /\ nreq' = nreq + 1
  /\ query_executing' = TRUE
  /\ query_worker' = nreq + 1
  /\ tasks' = [CancelAll EXCEPT ![nreq + 1] = [NoTask EXCEPT !.coro = "pending", !.query = q]]
  /\ UNCHANGED <<workerVars, pipeVars, clientVars, settingVars, connVars, txVars, timerVars,
                 histVars, peerVars, fired, ncmd>>
  /\ UNCHANGED <<lifeVars, extVars>>

\* _run_query_async from its start to its first await
TaskStart(r) ==
  /\ tasks[r].coro = "pending"
  /\ UNCHANGED <<connected, configTunnel, settingVars, fired, ncmd, peerVars, nreq, query_worker>>
  /\ IF ~connected THEN
       \* "Not connected"
       /\ query_executing' = FALSE
       /\ tasks' = [tasks EXCEPT ![r] = DoneTask]
       /\ UNCHANGED <<workerVars, pipeVars, clientVars, txVars, timerVars, histVars,
                      activeDb, targetDb>>
     ELSE
       LET q == tasks[r].query
           db == EffectiveDb
           useDb == parse_use_statement(q)
           fresh == NeedsNewExecutor(db)
           executor == IF fresh THEN execCount + 1 ELSE txExec
           stmts == split_statements(q)
           inTransaction == ~fresh /\ inTx
           toWorker == UseProcessWorker(stmts, inTransaction)
           base == [tasks[r] EXCEPT !.coro = "await"]
       IN
       /\ targetDb' = ""
       /\ IF useDb # "" THEN
            \* USE <db>: no statement is executed
            /\ query_executing' = FALSE
            /\ activeDb' = useDb
            /\ tasks' = [tasks EXCEPT ![r] = DoneTask]
            /\ UNCHANGED <<workerVars, pipeVars, clientVars, txVars, timerVars, histVars>>
          ELSE
            /\ UNCHANGED <<query_executing, activeDb>>
            /\ txExec' = executor
            /\ execCount' = IF fresh THEN execCount + 1 ELSE execCount
            /\ txConfig' = db
            /\ inTx' = inTransaction
            /\ IF toWorker /\ client # NoId THEN
                 \* _get_process_worker_client: the client exists
                 /\ SetTimers(Touched(TRUE))
                 /\ tasks' = [tasks EXCEPT
                                ![r] = [base EXCEPT !.route = "worker", !.thr = "queued",
                                                    !.gen = client]]
                 /\ UNCHANGED <<workerVars, pipeVars, clientVars, histVars>>
               ELSE IF toWorker THEN
                 \* _get_process_worker_client: ProcessWorkerClient() starts or raises
                 \E ok \in BOOLEAN :
                   IF ok /\ clientGen < MaxClients THEN
                     /\ SpawnClient
                     /\ SetTimers(Touched(TRUE))
                     /\ tasks' = [tasks EXCEPT
                                    ![r] = [base EXCEPT !.route = "worker", !.thr = "queued",
                                                        !.gen = clientGen + 1]]
                   ELSE
                     /\ tasks' = [tasks EXCEPT
                                    ![r] = [base EXCEPT !.route = "local", !.thr = "running",
                                                        !.exec = executor,
                                                        !.startFailed = TRUE,
                                                        !.note = FallbackSeverity]]
                     /\ UNCHANGED <<workerVars, pipeVars, clientVars, timerVars, histVars>>
               ELSE
                 /\ tasks' = [tasks EXCEPT
                                ![r] = [base EXCEPT
                                          !.route = IF Len(stmts) > 1 THEN "multi" ELSE "local",
                                          !.thr = "running", !.exec = executor]]
                 /\ UNCHANGED <<workerVars, pipeVars, clientVars, timerVars, histVars>>
  /\ UNCHANGED <<lifeVars, extVars>>

\* TransactionExecutor.execute / MultiStatementExecutor.execute in the to_thread
\* thread: the first k statements succeed; statement k + 1, if any, fails.
LocalFinish(r) ==
  /\ tasks[r].thr = "running"
  /\ tasks[r].route # "direct"
  /\ LET stmts == split_statements(tasks[r].query) IN
     \E k \in 0..Len(stmts) :
       /\ inTx' = IF tasks[r].exec = txExec THEN TxAfter(inTx, SubSeq(stmts, 1, k)) ELSE inTx
       /\ IF k = Len(stmts) \/ tasks[r].route = "multi"
          THEN Finish(r, "result", "", NoId)
          ELSE Finish(r, "exception", "statement failed", NoId)
  /\ UNCHANGED <<workerVars, pipeVars, clientVars, settingVars, connVars, txExec, txConfig,
                 execCount, timerVars, histVars, peerVars, query_executing, query_worker,
                 nreq, fired, ncmd>>
  /\ UNCHANGED <<lifeVars, extVars>>

\* _run_query_async after its await: the outcome is handled and the finally
\* block stops the spinner.
TaskResume(r) ==
  /\ tasks[r].route # "direct"
  /\ tasks[r].coro = "await"
  /\ tasks[r].thr = "over"
  /\ tasks' = [tasks EXCEPT ![r] = DoneTask]
  /\ query_executing' = FALSE
  /\ UNCHANGED <<workerVars, pipeVars, clientVars, settingVars, connVars, txVars, timerVars,
                 histVars, peerVars, query_worker, nreq, fired, ncmd>>
  /\ UNCHANGED <<lifeVars, extVars>>

\* _run_query_async resumed with CancelledError: only the finally block runs.
TaskCancelled(r) ==
  /\ tasks[r].route # "direct"
  /\ tasks[r].coro = "cancelling"
  /\ tasks' = [tasks EXCEPT ![r] = Settle([@ EXCEPT !.coro = "done"])]
  /\ query_executing' = FALSE
  /\ UNCHANGED <<workerVars, pipeVars, clientVars, settingVars, connVars, txVars, timerVars,
                 histVars, peerVars, query_worker, nreq, fired, ncmd>>
  /\ UNCHANGED <<lifeVars, extVars>>

\* fault: cancel_current names the id of the next call
cancel_next_id == next_id

\* ProcessWorkerClient.cancel_current, line 90: query_id = self._current_id
cancel_query_id == client_current_id

\* fault: the cancellable query is not told to cancel
CancelledQueryKept(c) == c

\* _cancellable_query.cancel() when the handle is not None
CancelledQuery(c) == IF c = "none" THEN "none" ELSE "cancelled"

\* action_cancel_operation (ProcessWorkerClient.cancel_current included).  An
\* invocation with nothing to cancel is a command of the user.
CancelOperation ==
  /\ query_executing \/ schema_indexing \/ ncmd < cmdBudget
  /\ ncmd' = IF query_executing \/ schema_indexing THEN ncmd ELSE ncmd + 1
  /\ IF query_executing THEN
       /\ IF client # NoId /\ cancel_query_id # NoId /\ worker = "up"
          THEN c2w' = Append(c2w, CancelFrame(cancel_query_id))
          ELSE UNCHANGED c2w
       /\ cancellable_query' = CancelledQuery(cancellable_query)
       /\ tasks' = IF query_worker # NoId
                   THEN [tasks EXCEPT ![query_worker] = Cancel(@)]
                   ELSE tasks
       /\ query_worker' = NoId
       /\ query_executing' = FALSE
     ELSE UNCHANGED <<c2w, cancellable_query, tasks, query_worker, query_executing>>
  /\ IF schema_indexing THEN
       /\ schema_task' = IF schema_worker THEN "cancelled" ELSE schema_task
       /\ schema_worker' = FALSE
       /\ schema_indexing' = FALSE
     ELSE UNCHANGED <<schema_indexing, schema_worker, schema_task>>
  /\ cancel_report' = IF query_executing \/ schema_indexing
                      THEN "Operation cancelled" ELSE "No operation running"
  /\ UNCHANGED <<workerVars, w2c, clientVars, settingVars, connVars, txVars, timerVars,
                 histVars, peerVars, nreq, fired>>
  /\ UNCHANGED <<lifeVars, uiVars>>

\* ---- the in-process cancellable query (QueryMixin._run_query_async)
\* from its start to its first await: a CancellableQuery is created and kept
\* in _cancellable_query, and its execute runs in a thread
TaskStartDirect(r) ==
  /\ tasks[r].coro = "pending"
  /\ connected
  /\ tasks' = [tasks EXCEPT ![r] = [@ EXCEPT !.coro = "await", !.route = "direct",
                                             !.thr = "running"]]
  /\ cancellable_query' = "live"
  /\ UNCHANGED <<workerVars, pipeVars, clientVars, settingVars, connVars, txVars, timerVars,
                 histVars, peerVars, query_executing, query_worker, nreq, fired, ncmd>>
  /\ UNCHANGED <<schema_indexing, schema_worker, schema_task, cancel_report, lifeVars, uiVars>>

\* cancellable.execute in the thread ends: with a result, with an error, or,
\* once cancelled, with an exception
DirectFinish(r) ==
  /\ tasks[r].route = "direct"
  /\ tasks[r].thr = "running"
  /\ \E o \in {"result", "exception"} : Finish(r, o, "", NoId)
  /\ UNCHANGED <<workerVars, pipeVars, clientVars, settingVars, connVars, txVars, timerVars,
                 histVars, peerVars, query_executing, query_worker, nreq, fired, ncmd>>
  /\ UNCHANGED <<lifeVars, extVars>>

\* the coroutine is resumed, with the thread's outcome or with CancelledError;
\* its finally block drops _cancellable_query and stops the spinner
TaskEndDirect(r) ==
  /\ tasks[r].route = "direct"
  /\ \/ tasks[r].coro = "await" /\ tasks[r].thr = "over"
     \/ tasks[r].coro = "cancelling"
  /\ tasks' = [tasks EXCEPT ![r] = Settle([@ EXCEPT !.coro = "done"])]
  /\ cancellable_query' = "none"
  /\ query_executing' = FALSE
  /\ UNCHANGED <<workerVars, pipeVars, clientVars, settingVars, connVars, txVars, timerVars,
                 histVars, peerVars, query_worker, nreq, fired, ncmd>>
  /\ UNCHANGED <<schema_indexing, schema_worker, schema_task, cancel_report, lifeVars, uiVars>>

\* ---- schema indexing
\* indexing of the schema starts in a worker of its own
SchemaStart ==
  /\ connected
  /\ schema_task = "none"
  /\ ncmd < cmdBudget
  /\ ncmd' = ncmd + 1
  /\ schema_indexing' = TRUE
  /\ schema_worker' = TRUE
  /\ schema_task' = "running"
  /\ UNCHANGED <<workerVars, pipeVars, clientVars, settingVars, connVars, txVars, timerVars,
                 histVars, peerVars, query_executing, query_worker, nreq, tasks, fired>>
  /\ UNCHANGED <<cancellable_query, cancel_report, lifeVars, uiVars>>

\* the schema worker ends, by itself or cancelled
SchemaEnd ==
  /\ schema_task # "none"
  /\ schema_task' = "none"
  /\ schema_indexing' = FALSE
  /\ UNCHANGED <<workerVars, pipeVars, clientVars, settingVars, connVars, txVars, timerVars,
                 histVars, peerVars, query_executing, query_worker, nreq, tasks, fired, ncmd>>
  /\ UNCHANGED <<schema_worker, cancellable_query, cancel_report, lifeVars, uiVars>>

\* the callback _maybe_shutdown of a pending timer that captured lu
TimerFire(lu) ==
  /\ ~exited
  /\ lu # NoTimer
  /\ lu = idle_timer \/ lu \in stale_timers
  /\ fired' = lu
  /\ LET live == lu = idle_timer
         rest == stale_timers \ {lu}
     IN
     IF lu # 0 /\ query_executing THEN
       \* re-arm
       /\ LET t == Armed(auto_shutdown_s, last_used, client # NoId) IN
          /\ last_used' = t.last_used
          /\ idle_timer' = t.idle_timer
          /\ stale_timers' = t.stale_timers \ {lu}
       /\ UNCHANGED <<workerVars, pipeVars, clientVars, histVars>>
     ELSE IF MaybeShutdownCloses(lu) /\ client # NoId THEN
       \* _close_process_worker_client
       /\ CloseClient
       /\ idle_timer' = NoTimer
       /\ stale_timers' = StaleAfterClear \ {lu}
       /\ UNCHANGED last_used
     ELSE
       /\ idle_timer' = IF live THEN NoTimer ELSE idle_timer
       /\ stale_timers' = IF live THEN stale_timers ELSE rest
       /\ UNCHANGED <<last_used, workerVars, pipeVars, clientVars, histVars>>
  /\ UNCHANGED <<settingVars, connVars, txVars, peerVars, query_executing, query_worker,
                 nreq, tasks, ncmd>>
  /\ UNCHANGED <<lifeVars, extVars>>

\* ---- warm-on-idle
\* _schedule_process_worker_warm: nothing without the setting; otherwise the
\* callbacks named "process-worker-warm" are cancelled and one is requested
ScheduledWarm == IF warm_on_idle THEN TRUE ELSE warm_pending

\* fault: the pending callback is left in the scheduler
WarmKeptPending == warm_pending

\* _cancel_process_worker_warm: cancel_all(name="process-worker-warm")
CancelledWarm == FALSE

\* _warm: the callback goes on to _get_process_worker_client
WarmSpawns == process_worker /\ warm_on_idle

\* _get_process_worker_client outside a request: the client is touched, or a
\* new one is started (ProcessWorkerClient() may raise, the error is kept)
GetProcessWorkerClient ==
  IF client # NoId THEN
    /\ SetTimers(Touched(TRUE))
    /\ UNCHANGED <<workerVars, pipeVars, clientVars, histVars>>
  ELSE
    \E ok \in BOOLEAN :
      IF ok /\ clientGen < MaxClients THEN
        /\ SpawnClient
        /\ SetTimers(Touched(TRUE))
      ELSE
        UNCHANGED <<workerVars, pipeVars, clientVars, timerVars, histVars>>

\* the idle scheduler runs the pending _warm callback
WarmFire ==
  /\ ~exited
  /\ warm_pending
  /\ warm_pending' = FALSE
  /\ IF WarmSpawns
     THEN GetProcessWorkerClient
     ELSE UNCHANGED <<workerVars, pipeVars, clientVars, timerVars, histVars>>
  /\ UNCHANGED <<settingVars, connVars, txVars, peerVars, query_executing, query_worker,
                 nreq, tasks, fired, ncmd>>
  /\ UNCHANGED <<warm_on_idle, exited, cmdBudget, extVars>>

\* _set_process_worker
SetProcessWorker(enabled) ==
  /\ ~exited
  /\ ncmd < cmdBudget
  /\ ncmd' = ncmd + 1
  /\ ~query_executing
  /\ process_worker # enabled \/ (enabled /\ warm_on_idle)
  /\ process_worker' = enabled
  /\ IF ~enabled
     THEN CloseProcessWorkerClient
     ELSE UNCHANGED <<workerVars, pipeVars, clientVars, timerVars, histVars>>
  /\ warm_pending' = IF enabled THEN ScheduledWarm ELSE CancelledWarm
  /\ UNCHANGED <<auto_shutdown_s, connVars, txVars, peerVars, query_executing, query_worker,
                 nreq, tasks, fired>>
  /\ UNCHANGED <<warm_on_idle, exited, cmdBudget, extVars>>

\* _set_process_worker_warm_on_idle: the setting is stored, the pending
\* callback cancelled, and one is scheduled if both settings are on
SetProcessWorkerWarmOnIdle(enabled) ==
  /\ ~exited
  /\ ncmd < cmdBudget
  /\ ncmd' = ncmd + 1
  /\ ~query_executing
  /\ warm_on_idle' = enabled
  /\ warm_pending' = IF enabled /\ process_worker THEN TRUE ELSE CancelledWarm
  /\ UNCHANGED <<workerVars, pipeVars, clientVars, timerVars, histVars, settingVars, connVars,
                 txVars, peerVars, query_executing, query_worker, nreq, tasks, fired>>
  /\ UNCHANGED <<exited, cmdBudget, extVars>>

\* on_unmount: the idle scheduler is stopped, and with it its pending
\* callbacks; the handlers of the application do not run afterwards
Unmount ==
  /\ ~exited
  /\ exited' = TRUE
  /\ warm_pending' = FALSE
  /\ UNCHANGED <<workerVars, pipeVars, clientVars, timerVars, histVars, settingVars, connVars,
                 txVars, peerVars, query_executing, query_worker, nreq, tasks, fired, ncmd>>
  /\ UNCHANGED <<warm_on_idle, cmdBudget, extVars>>

\* the values of :set process_worker_auto_shutdown the model draws from
ShutdownSeconds == {0, 5}

\* _set_process_worker_auto_shutdown
SetProcessWorkerAutoShutdown(seconds) ==
  /\ ~exited
  /\ ncmd < cmdBudget
  /\ ncmd' = ncmd + 1
  /\ ~query_executing
  /\ auto_shutdown_s # seconds
  /\ auto_shutdown_s' = seconds
  /\ SetTimers(Armed(seconds, last_used, client # NoId))
  /\ UNCHANGED <<workerVars, pipeVars, clientVars, process_worker, connVars, txVars,
                 histVars, peerVars, query_executing, query_worker, nreq,
                 tasks, fired>>
  /\ UNCHANGED <<lifeVars, extVars>>

\* _on_disconnect: the transaction executor is reset and the client closed.
Disconnect ==
  /\ ~exited
  /\ ncmd < cmdBudget
  /\ ncmd' = ncmd + 1
  /\ connected
  /\ ~query_executing
  /\ connected' = FALSE
  /\ txExec' = NoId
  /\ txConfig' = ""
  /\ inTx' = FALSE
  /\ CloseProcessWorkerClient
  /\ UNCHANGED <<configTunnel, activeDb, targetDb, execCount, settingVars, peerVars,
                 query_executing, query_worker, nreq, tasks, fired>>
  /\ UNCHANGED <<lifeVars, extVars>>

\* a connection is made: current_connection / current_config are set
Connect(tk) ==
  /\ ~exited
  /\ ~connected
  /\ connected' = TRUE
  /\ configTunnel' = tk
  /\ UNCHANGED <<workerVars, pipeVars, clientVars, activeDb, targetDb, settingVars, txVars,
                 timerVars, histVars, peerVars, query_executing, query_worker,
                 nreq, tasks, fired, ncmd>>
  /\ UNCHANGED <<lifeVars, extVars>>

\* a table of database db is chosen in the tree: _query_target_database is set
\* for the generated query
SelectTable(db) ==
  /\ ncmd < cmdBudget
  /\ ncmd' = ncmd + 1
  /\ connected
  /\ ~query_executing
  /\ targetDb # db
  /\ targetDb' = db
  /\ UNCHANGED <<workerVars, pipeVars, clientVars, connected, configTunnel, activeDb,
                 settingVars, txVars, timerVars, histVars, peerVars, query_executing,
                 query_worker, nreq, tasks, fired>>
  /\ UNCHANGED <<lifeVars, extVars>>

\* ===================================================== an arbitrary pipe peer
\* The worker and the client each read frames from a pipe; SpecOpen lets a peer
\* other than sqlit's own client / worker write a frame to either end.
PeerQueries == {<<"select">>, <<"select", ";", "select">>}

PeerDbTypes == {"", "nope"}

PeerWorkerFrames ==
  {ExecFrame(id, q, configTunnel, "known") : id \in Ids, q \in PeerQueries}
    \cup {ExecFrame(id, <<"select">>, configTunnel, dbt) : id \in Ids, dbt \in PeerDbTypes}
    \cup {CancelFrame(id) : id \in Ids}

PeerClientFrames == {Reply(ty, id, "") : ty \in {"result", "cancelled", "error"}, id \in Ids}

PeerWriteWorker ==
  /\ worker = "up"
  /\ peerW + peerC < MaxPeerFrames
  /\ peerW' = peerW + 1
  /\ \E f \in PeerWorkerFrames : c2w' = Append(c2w, f)
  /\ UNCHANGED <<workerVars, w2c, clientVars, settingVars, connVars, txVars, timerVars,
                 histVars, peerC, query_executing, query_worker, nreq, tasks,
                 fired, ncmd>>
  /\ UNCHANGED <<lifeVars, extVars>>

PeerWriteClient ==
  /\ client # NoId
  /\ peerW + peerC < MaxPeerFrames
  /\ peerC' = peerC + 1
  /\ \E f \in PeerClientFrames : w2c' = Append(w2c, f)
  /\ UNCHANGED <<workerVars, c2w, clientVars, settingVars, connVars, txVars, timerVars,
                 histVars, peerW, query_executing, query_worker, nreq, tasks,
                 fired, ncmd>>
  /\ UNCHANGED <<lifeVars, extVars>>

\* _command_mode = False, _command_buffer = "" (main.py 143-144)
NoCommand == [mode |-> FALSE, buffer |-> <<>>, handled |-> FALSE, ran |-> ""]

\* ProcessWorkerClient.__init__ has returned: the process runs, the pipe is open
NewClient ==
  [closed |-> FALSE, conn |-> "open", process |-> "alive", next_id |-> 1,
   current_id |-> NoId, busy |-> FALSE, frames |-> <<>>, error |-> "",
   last |-> "", ncalls |-> 0, closes |-> 0]

\* ============================================================ specification
InitState ==
  /\ worker = "none"
  /\ current_id = NoId
  /\ is_cancelled = FALSE
  /\ current_thread = "none"
  /\ tunnel_key = NoTunnel
  /\ tunnel = NoId
  /\ tunnels_running = {}
  /\ tunnels_created = 0
  /\ c2w = <<>>
  /\ w2c = <<>>
  /\ client = NoId
  /\ clientGen = 0
  /\ next_id = 1
  /\ client_current_id = NoId
  /\ connected = FALSE
  /\ configTunnel = NoTunnel
  /\ activeDb = ""
  /\ targetDb = ""
  /\ process_worker = TRUE
  /\ auto_shutdown_s = 0
  /\ query_executing = FALSE
  /\ query_worker = NoId
  /\ txExec = NoId
  /\ txConfig = ""
  /\ inTx = FALSE
  /\ execCount = 0
  /\ last_used = 0
  /\ idle_timer = NoTimer
  /\ stale_timers = {}
  /\ nreq = 0
  /\ tasks = [r \in Reqs |-> NoTask]
  /\ execsSeen = {}
  /\ started = {}
  /\ replyCount = [i \in Ids |-> 0]
  /\ cancelledAtReply = FALSE
  /\ fired = NoTimer
  /\ ncmd = 0
  /\ peerW = 0
  /\ peerC = 0
  /\ warm_on_idle = FALSE
  /\ warm_pending = FALSE
  /\ exited = FALSE
  /\ cancellable_query = "none"
  /\ schema_indexing = FALSE
  /\ schema_worker = FALSE
  /\ schema_task = "none"
  /\ cancel_report = ""
  /\ ctx = [focus |-> "explorer", vim_mode |-> "normal", leader_pending |-> FALSE,
            leader_menu |-> "leader", query_executing |-> FALSE, modal_open |-> FALSE,
            has_connection |-> FALSE]
  /\ key_pressed = ""
  /\ resolved = "none"
  /\ checked = ""
  /\ verdict = ""
  /\ command = NoCommand
  /\ leader_cancelled = FALSE

\* UndoHistory() and no edit yet
EmptyHistory ==
  /\ undo_snapshots = <<>>
  /\ undo_index = 0
  /\ edits = 0
  /\ last_edit = "none"
  /\ before_op = <<>>
  /\ after_op = <<>>
  /\ trail = <<>>

\* no picker result handled, no picker screen mounted, no driver imported, no Azure connection
NoPick == [connections |-> <<>>, container |-> <<>>, handled |-> FALSE, config |-> 0]

NoDiscovery == [mounted |-> "no"]

NoImport == [called |-> FALSE]

NoAzure == [connected |-> FALSE]

IdlePicker == picker = NoPick

IdleDiscovery == discovery = NoDiscovery

IdleDriver == driver_import = NoImport

IdleAzure == azure = NoAzure

IdleClient == pwc = NewClient

IdleScreens == IdlePicker /\ IdleDiscovery /\ IdleDriver /\ IdleAzure /\ IdleClient

\* the editor before any text is typed
EmptyEditor ==
  /\ ed_text = <<>>
  /\ cursor_row = 0
  /\ cursor_col = 0
  /\ motion_key = ""
  /\ motion_char = ""
  /\ motion_pos = <<0, 0>>
  /\ EmptyHistory

Init == InitState /\ EmptyEditor /\ IdleScreens /\ cmdBudget = MaxCmds

\* requests, the client, the worker
NextCore ==
  \/ \E q \in QueryTexts : ExecuteQuery(q)
  \/ \E r \in Reqs : TaskStart(r)
  \/ \E r \in Reqs : ClientBegin(r)
  \/ \E r \in Reqs : ClientSend(r)
  \/ \E r \in Reqs : ClientRecv(r)
  \/ \E r \in Reqs : LocalFinish(r)
  \/ \E r \in Reqs : TaskResume(r)
  \/ \E r \in Reqs : TaskCancelled(r)
  \/ CancelOperation
  \/ \E tk \in {NoTunnel} \cup TunnelKeys : Connect(tk)
  \/ WorkerPoll
  \/ WorkerRecv
  \/ ThreadRun
  \/ ThreadExit

\* settings and connection commands, the idle timer
NextCommands ==
  \/ \E lu \in 0..MaxReq : TimerFire(lu)
  \/ \E b \in BOOLEAN : SetProcessWorker(b)
  \/ \E sec \in ShutdownSeconds : SetProcessWorkerAutoShutdown(sec)
  \/ Disconnect
  \/ \E db \in Dbs : SelectTable(db)

Next == NextCore \/ NextCommands

Spec == Init /\ [][Next]_vars

\* the client and the worker with an arbitrary peer on their pipes; the user
\* gives no command besides queries, cancels of a running query and a connect
InitOpen == InitState /\ EmptyEditor /\ IdleScreens /\ cmdBudget = MaxOpenCmds

NextOpen ==
  \/ \E q \in PeerQueries : ExecuteQuery(q)
  \/ \E r \in Reqs : TaskStart(r)
  \/ \E r \in Reqs : ClientBegin(r)
  \/ \E r \in Reqs : ClientSend(r)
  \/ \E r \in Reqs : ClientRecv(r)
  \/ \E r \in Reqs : LocalFinish(r)
  \/ \E r \in Reqs : TaskResume(r)
  \/ \E r \in Reqs : TaskCancelled(r)
  \/ CancelOperation
  \/ \E tk \in {NoTunnel} \cup TunnelKeys : Connect(tk)
  \/ WorkerPoll
  \/ WorkerRecv
  \/ ThreadRun
  \/ ThreadExit
  \/ PeerWriteWorker
  \/ PeerWriteClient

SpecOpen == InitOpen /\ [][NextOpen]_vars

\* queries in the worker and in-process, schema indexing, and cancellation
InitCancel == InitState /\ EmptyEditor /\ IdleScreens /\ cmdBudget = MaxCancelCmds

NextCancel ==
  \/ \E q \in {<<"select">>} : ExecuteQuery(q)
  \/ \E r \in Reqs : TaskStart(r)
  \/ \E r \in Reqs : TaskStartDirect(r)
  \/ \E r \in Reqs : ClientBegin(r)
  \/ \E r \in Reqs : ClientSend(r)
  \/ \E r \in Reqs : ClientRecv(r)
  \/ \E r \in Reqs : LocalFinish(r)
  \/ \E r \in Reqs : DirectFinish(r)
  \/ \E r \in Reqs : TaskResume(r)
  \/ \E r \in Reqs : TaskCancelled(r)
  \/ \E r \in Reqs : TaskEndDirect(r)
  \/ CancelOperation
  \/ SchemaStart
  \/ SchemaEnd
  \/ \E tk \in {NoTunnel} : Connect(tk)
  \/ WorkerPoll
  \/ WorkerRecv
  \/ ThreadRun
  \/ ThreadExit

SpecCancel == InitCancel /\ [][NextCancel]_vars

\* the life of the worker client without requests: settings, connection,
\* warm-up, the idle timer and the end of the application
\* ---- the key router and the state machine of key states
Panes == {"explorer", "query", "results", "none"}
VimModes == {"normal", "insert"}
LeaderMenus == {"leader", "delete"}

\* the InputContext snapshots built by _get_input_context: the tree cursor is
\* on no node, no filter, autocomplete or value view is shown, no delete
\* motion is pending
Contexts ==
  [focus : Panes, vim_mode : VimModes, leader_pending : BOOLEAN, leader_menu : LeaderMenus,
   query_executing : BOOLEAN, modal_open : BOOLEAN, has_connection : BOOLEAN]

\* DefaultKeymapProvider.get_leader_commands, in its order
LeaderCommandDefs ==
  <<[key |-> "e", action |-> "toggle_explorer", guard |-> "", menu |-> "leader"],
    [key |-> "f", action |-> "toggle_fullscreen", guard |-> "", menu |-> "leader"],
    [key |-> "c", action |-> "show_connection_picker", guard |-> "", menu |-> "leader"],
    [key |-> "x", action |-> "disconnect", guard |-> "has_connection", menu |-> "leader"],
    [key |-> "z", action |-> "cancel_operation", guard |-> "query_executing", menu |-> "leader"],
    [key |-> "t", action |-> "change_theme", guard |-> "", menu |-> "leader"],
    [key |-> "h", action |-> "show_help", guard |-> "", menu |-> "leader"],
    [key |-> "q", action |-> "quit", guard |-> "", menu |-> "leader"],
    [key |-> "d", action |-> "line", guard |-> "", menu |-> "delete"],
    [key |-> "w", action |-> "word", guard |-> "", menu |-> "delete"],
    [key |-> "W", action |-> "WORD", guard |-> "", menu |-> "delete"],
    [key |-> "b", action |-> "word_back", guard |-> "", menu |-> "delete"],
    [key |-> "B", action |-> "WORD_back", guard |-> "", menu |-> "delete"],
    [key |-> "e", action |-> "word_end", guard |-> "", menu |-> "delete"],
    [key |-> "E", action |-> "WORD_end", guard |-> "", menu |-> "delete"],
    [key |-> "0", action |-> "line_start", guard |-> "", menu |-> "delete"],
    [key |-> "$", action |-> "line_end_motion", guard |-> "", menu |-> "delete"],
    [key |-> "D", action |-> "line_end", guard |-> "", menu |-> "delete"],
    [key |-> "x", action |-> "char", guard |-> "", menu |-> "delete"],
    [key |-> "X", action |-> "char_back", guard |-> "", menu |-> "delete"],
    [key |-> "h", action |-> "left", guard |-> "", menu |-> "delete"],
    [key |-> "j", action |-> "down", guard |-> "", menu |-> "delete"],
    [key |-> "k", action |-> "up", guard |-> "", menu |-> "delete"],
    [key |-> "l", action |-> "right", guard |-> "", menu |-> "delete"],
    [key |-> "G", action |-> "to_end", guard |-> "", menu |-> "delete"],
    [key |-> "f", action |-> "find_char", guard |-> "", menu |-> "delete"],
    [key |-> "F", action |-> "find_char_back", guard |-> "", menu |-> "delete"],
    [key |-> "t", action |-> "till_char", guard |-> "", menu |-> "delete"],
    [key |-> "T", action |-> "till_char_back", guard |-> "", menu |-> "delete"],
    [key |-> "%", action |-> "matching_bracket", guard |-> "", menu |-> "delete"],
    [key |-> "i", action |-> "inner", guard |-> "", menu |-> "delete"],
    [key |-> "a", action |-> "around", guard |-> "", menu |-> "delete"]>>

\* DefaultKeymapProvider.get_action_keys, in its order
ActionKeyDefs ==
  <<[key |-> "n", action |-> "new_connection", context |-> "tree", guard |-> ""],
    [key |-> "s", action |-> "select_table", context |-> "tree", guard |-> ""],
    [key |-> "f", action |-> "refresh_tree", context |-> "tree", guard |-> ""],
    [key |-> "R", action |-> "refresh_tree", context |-> "tree", guard |-> ""],
    [key |-> "e", action |-> "edit_connection", context |-> "tree", guard |-> ""],
    [key |-> "d", action |-> "delete_connection", context |-> "tree", guard |-> ""],
    [key |-> "delete", action |-> "delete_connection", context |-> "tree", guard |-> ""],
    [key |-> "D", action |-> "duplicate_connection", context |-> "tree", guard |-> ""],
    [key |-> "x", action |-> "disconnect", context |-> "tree", guard |-> ""],
    [key |-> "z", action |-> "collapse_tree", context |-> "tree", guard |-> ""],
    [key |-> "j", action |-> "tree_cursor_down", context |-> "tree", guard |-> ""],
    [key |-> "k", action |-> "tree_cursor_up", context |-> "tree", guard |-> ""],
    [key |-> "slash", action |-> "tree_filter", context |-> "tree", guard |-> ""],
    [key |-> "escape", action |-> "tree_filter_close", context |-> "tree_filter", guard |-> ""],
    [key |-> "enter", action |-> "tree_filter_accept", context |-> "tree_filter", guard |-> ""],
    [key |-> "n", action |-> "tree_filter_next", context |-> "tree_filter", guard |-> ""],
    [key |-> "N", action |-> "tree_filter_prev", context |-> "tree_filter", guard |-> ""],
    [key |-> "space", action |-> "leader_key", context |-> "global", guard |-> ""],
    [key |-> "ctrl+q", action |-> "quit", context |-> "global", guard |-> ""],
    [key |-> "question_mark", action |-> "show_help", context |-> "global", guard |-> ""],
    [key |-> "e", action |-> "focus_explorer", context |-> "navigation", guard |-> ""],
    [key |-> "q", action |-> "focus_query", context |-> "navigation", guard |-> ""],
    [key |-> "r", action |-> "focus_results", context |-> "navigation", guard |-> ""],
    [key |-> "i", action |-> "enter_insert_mode", context |-> "query_normal", guard |-> ""],
    [key |-> "escape", action |-> "exit_insert_mode", context |-> "query", guard |-> ""],
    [key |-> "enter", action |-> "execute_query", context |-> "query_normal", guard |-> ""],
    [key |-> "f5", action |-> "execute_query_insert", context |-> "query_insert", guard |-> ""],
    [key |-> "ctrl+enter", action |-> "execute_query_insert", context |-> "query_insert", guard |-> ""],
    [key |-> "d", action |-> "delete_leader_key", context |-> "query_normal", guard |-> ""],
    [key |-> "n", action |-> "new_query", context |-> "query_normal", guard |-> ""],
    [key |-> "h", action |-> "show_history", context |-> "query_normal", guard |-> ""],
    [key |-> "y", action |-> "copy_context", context |-> "query_normal", guard |-> ""],
    [key |-> "ctrl+a", action |-> "select_all", context |-> "query", guard |-> ""],
    [key |-> "ctrl+c", action |-> "copy_selection", context |-> "query", guard |-> ""],
    [key |-> "ctrl+v", action |-> "paste", context |-> "query", guard |-> ""],
    [key |-> "ctrl+z", action |-> "undo", context |-> "query", guard |-> ""],
    [key |-> "ctrl+y", action |-> "redo", context |-> "query", guard |-> ""],
    [key |-> "u", action |-> "undo", context |-> "query_normal", guard |-> ""],
    [key |-> "ctrl+r", action |-> "redo", context |-> "query_normal", guard |-> ""],
    [key |-> "v", action |-> "view_cell", context |-> "results", guard |-> ""],
    [key |-> "V", action |-> "view_cell_full", context |-> "results", guard |-> ""],
    [key |-> "y", action |-> "copy_context", context |-> "results", guard |-> ""],
    [key |-> "Y", action |-> "copy_row", context |-> "results", guard |-> ""],
    [key |-> "a", action |-> "copy_results", context |-> "results", guard |-> ""],
    [key |-> "u", action |-> "edit_cell", context |-> "results", guard |-> ""],
    [key |-> "ctrl+z", action |-> "cancel_operation", context |-> "global", guard |-> "query_executing"],
    [key |-> "h", action |-> "results_cursor_left", context |-> "results", guard |-> ""],
    [key |-> "j", action |-> "results_cursor_down", context |-> "results", guard |-> ""],
    [key |-> "k", action |-> "results_cursor_up", context |-> "results", guard |-> ""],
    [key |-> "l", action |-> "results_cursor_right", context |-> "results", guard |-> ""],
    [key |-> "x", action |-> "clear_results", context |-> "results", guard |-> ""],
    [key |-> "ctrl+j", action |-> "autocomplete_next", context |-> "autocomplete", guard |-> ""],
    [key |-> "ctrl+k", action |-> "autocomplete_prev", context |-> "autocomplete", guard |-> ""],
    [key |-> "slash", action |-> "results_filter", context |-> "results", guard |-> ""],
    [key |-> "escape", action |-> "results_filter_close", context |-> "results_filter", guard |-> ""],
    [key |-> "enter", action |-> "results_filter_accept", context |-> "results_filter", guard |-> ""],
    [key |-> "n", action |-> "results_filter_next", context |-> "results_filter", guard |-> ""],
    [key |-> "N", action |-> "results_filter_prev", context |-> "results_filter", guard |-> ""]>>

\* LeaderCommand.binding_action
BindingAction(cmd) == cmd.menu \o "_" \o cmd.action

\* get_leader_commands(menu): the indices of the commands of one menu
LeaderCommandsOf(menu) ==
  {i \in 1..Len(LeaderCommandDefs) : LeaderCommandDefs[i].menu = menu}

\* fault: a guard is never evaluated
LeaderGuardIgnored(guard, c) == TRUE

\* LEADER_GUARDS and LeaderCommand.is_allowed
LeaderGuardHolds(guard, c) ==
  CASE guard = "has_connection" -> c.has_connection
    [] guard = "query_executing" -> c.query_executing
    [] OTHER -> TRUE

\* the keys and the action names a key or a check can carry
Keys ==
  {ActionKeyDefs[i].key : i \in 1..Len(ActionKeyDefs)}
    \cup {LeaderCommandDefs[i].key : i \in 1..Len(LeaderCommandDefs)}

ActionNames ==
  {ActionKeyDefs[i].action : i \in 1..Len(ActionKeyDefs)}
    \cup {LeaderCommandDefs[i].action : i \in 1..Len(LeaderCommandDefs)}
    \cup {BindingAction(LeaderCommandDefs[i]) : i \in 1..Len(LeaderCommandDefs)}
    \cup {"focus_query", "autocomplete_accept"}

\* the allows(...) and forbids(...) of each state's _setup_actions
RootAllows == {"quit", "show_help", "leader_key"}

MainScreenAllows ==
  {"focus_explorer", "focus_query", "focus_results", "toggle_fullscreen", "show_help",
   "change_theme", "leader_key"}

\* fault: the executing state does not allow cancel_operation
QueryExecutingAllowsQuit == {"quit"}

QueryExecutingAllows == {"cancel_operation", "quit"}

QueryInsertAllows ==
  {"exit_insert_mode", "execute_query_insert", "autocomplete_accept", "quit"}

\* fault: the insert state forbids nothing
QueryInsertForbidsNone == {}

QueryInsertForbids ==
  {"focus_explorer", "focus_results", "leader_key", "new_connection", "show_help"}

QueryNormalAllows ==
  {"enter_insert_mode", "execute_query", "delete_leader_key", "new_query", "copy_context",
   "show_history", "select_all", "copy_selection", "paste", "undo", "redo"}

TreeFocusedAllows ==
  {"new_connection", "refresh_tree", "collapse_tree", "tree_cursor_down", "tree_cursor_up",
   "tree_filter"}

ResultsFocusedAllows ==
  {"view_cell", "view_cell_full", "edit_cell", "copy_context", "copy_row", "copy_results",
   "clear_results", "results_filter", "results_cursor_left", "results_cursor_down",
   "results_cursor_up", "results_cursor_right"}

\* State.is_active of each state
IsActive(s, c) ==
  CASE s = "root" -> TRUE
    [] s = "modal_active" -> c.modal_open
    [] s = "main_screen" -> ~c.modal_open /\ ~c.query_executing
    [] s = "query_executing" -> ~c.modal_open /\ c.query_executing
    [] s = "leader_pending" -> c.leader_pending
    [] s = "query_focused" -> c.focus = "query"
    [] s = "query_insert" -> c.focus = "query" /\ c.vim_mode = "insert"
    [] s = "query_normal" -> c.focus = "query" /\ c.vim_mode = "normal"
    [] s = "tree_focused" -> c.focus = "explorer"
    [] s = "results_focused" -> c.focus = "results"

\* State.check_action of a state that only declares allows and forbids
StateVerdict(allows, forbids, name) ==
  IF name \in forbids THEN "FORBIDDEN"
  ELSE IF name \in allows THEN "ALLOWED"
  ELSE "PASS"

\* LeaderPendingState.check_action
LeaderPendingVerdict(c, name) ==
  IF \E i \in LeaderCommandsOf(c.leader_menu) : BindingAction(LeaderCommandDefs[i]) = name
  THEN LET i == CHOOSE j \in LeaderCommandsOf(c.leader_menu) :
                  /\ BindingAction(LeaderCommandDefs[j]) = name
                  /\ \A k \in LeaderCommandsOf(c.leader_menu) :
                       BindingAction(LeaderCommandDefs[k]) = name => j <= k
       IN IF LeaderGuardHolds(LeaderCommandDefs[i].guard, c) THEN "ALLOWED" ELSE "FORBIDDEN"
  ELSE "FORBIDDEN"

\* ModalActiveState.check_action
ModalActiveVerdict(name) == IF name = "quit" THEN "ALLOWED" ELSE "FORBIDDEN"

\* the verdict of one state on an action
OwnVerdict(s, c, name) ==
  CASE s = "root" -> StateVerdict(RootAllows, {}, name)
    [] s = "modal_active" -> ModalActiveVerdict(name)
    [] s = "main_screen" -> StateVerdict(MainScreenAllows, {}, name)
    [] s = "query_executing" -> StateVerdict(QueryExecutingAllows, {}, name)
    [] s = "leader_pending" -> LeaderPendingVerdict(c, name)
    [] s = "query_focused" -> StateVerdict({}, {}, name)
    [] s = "query_insert" -> StateVerdict(QueryInsertAllows, QueryInsertForbids, name)
    [] s = "query_normal" -> StateVerdict(QueryNormalAllows, {}, name)
    [] s = "tree_focused" -> StateVerdict(TreeFocusedAllows, {}, name)
    [] s = "results_focused" -> StateVerdict(ResultsFocusedAllows, {}, name)

\* the states in the order the machine looks for the most specific active one
StateOrder ==
  <<"modal_active", "leader_pending", "query_executing", "query_insert", "query_normal",
    "tree_focused", "results_focused", "query_focused", "main_screen", "root">>

\* a state followed by its ancestors
ParentChain(s) ==
  CASE s = "modal_active" -> <<"modal_active", "root">>
    [] s = "leader_pending" -> <<"leader_pending", "main_screen", "root">>
    [] s = "query_executing" -> <<"query_executing", "root">>
    [] s = "query_insert" -> <<"query_insert", "query_focused", "main_screen", "root">>
    [] s = "query_normal" -> <<"query_normal", "query_focused", "main_screen", "root">>
    [] s = "tree_focused" -> <<"tree_focused", "main_screen", "root">>
    [] s = "results_focused" -> <<"results_focused", "main_screen", "root">>
    [] s = "query_focused" -> <<"query_focused", "main_screen", "root">>
    [] s = "main_screen" -> <<"main_screen", "root">>
    [] s = "root" -> <<"root">>

\* the most specific active state
ActiveState(c) ==
  StateOrder[CHOOSE i \in 1..Len(StateOrder) :
               /\ IsActive(StateOrder[i], c)
               /\ \A j \in 1..(i - 1) : ~IsActive(StateOrder[j], c)]

\* the active states, most specific first
ActiveStates(c) == SelectSeq(ParentChain(ActiveState(c)), LAMBDA s : IsActive(s, c))

\* UIStateMachine.check_action: the first verdict that is not PASS
CheckAction(c, name) ==
  LET w == ActiveStates(c)
      answered == {i \in 1..Len(w) : OwnVerdict(w[i], c, name) # "PASS"}
  IN IF answered = {} THEN "PASS"
     ELSE OwnVerdict(w[CHOOSE i \in answered : \A j \in answered : i <= j], c, name)

IsAllowed(c, name) == CheckAction(c, name) = "ALLOWED"

\* get_binding_contexts: is a keymap context active
ContextActive(context, c) ==
  CASE context \in {"global", "navigation"} -> TRUE
    [] context = "tree" -> c.focus = "explorer"
    [] context = "query" -> c.focus = "query"
    [] context = "query_insert" -> c.focus = "query" /\ c.vim_mode = "insert"
    [] context = "query_normal" -> c.focus = "query" /\ c.vim_mode # "insert"
    [] OTHER -> FALSE

\* the bindings of a key that can be taken in a context
Takeable(key, c) ==
  IF c.leader_pending
  THEN {i \in LeaderCommandsOf(c.leader_menu) :
          /\ LeaderCommandDefs[i].key = key
          /\ IsAllowed(c, BindingAction(LeaderCommandDefs[i]))}
  ELSE {i \in 1..Len(ActionKeyDefs) :
          /\ ActionKeyDefs[i].key = key
          /\ ContextActive(ActionKeyDefs[i].context, c)
          /\ IsAllowed(c, ActionKeyDefs[i].action)}

\* resolve_action(key, ctx, is_allowed); "none" is None
ResolveAction(key, c) ==
  IF Takeable(key, c) = {} THEN "none"
  ELSE LET i == CHOOSE j \in Takeable(key, c) : \A k \in Takeable(key, c) : j <= k
       IN IF c.leader_pending THEN BindingAction(LeaderCommandDefs[i])
          ELSE ActionKeyDefs[i].action

\* the snapshots that differ from the last one in one field
ChangedContexts ==
  ({[ctx EXCEPT !.focus = p] : p \in Panes}
     \cup {[ctx EXCEPT !.vim_mode = m] : m \in VimModes}
     \cup {[ctx EXCEPT !.leader_pending = b] : b \in BOOLEAN}
     \cup {[ctx EXCEPT !.leader_menu = m] : m \in LeaderMenus}
     \cup {[ctx EXCEPT !.query_executing = b] : b \in BOOLEAN}
     \cup {[ctx EXCEPT !.modal_open = b] : b \in BOOLEAN}
     \cup {[ctx EXCEPT !.has_connection = b] : b \in BOOLEAN}) \ {ctx}

\* the application state changes and the next snapshot differs
Snapshot(c) ==
  /\ ctx' = c
  /\ key_pressed' = ""
  /\ resolved' = "none"
  /\ checked' = ""
  /\ verdict' = ""
  /\ leader_cancelled' = FALSE
  /\ UNCHANGED command
  /\ UNCHANGED <<appVars, editVars>>

ContextChange == \E c \in ChangedContexts : Snapshot(c)

\* SSMSTUI.check_action / _execute_command_action ask the machine; checked and
\* verdict record one call per snapshot
CheckActionCall(name) ==
  /\ checked = "" /\ key_pressed = ""
  /\ checked' = name
  /\ verdict' = CheckAction(ctx, name)
  /\ key_pressed' = ""
  /\ resolved' = "none"
  /\ leader_cancelled' = FALSE
  /\ UNCHANGED <<ctx, command>>
  /\ UNCHANGED <<appVars, editVars>>

\* SSMSTUI.on_key outside command mode: resolve the key; if nothing resolves
\* while a leader menu is pending, cancel the menu and resolve again
\* fault: the key is resolved once, against the pending menu only
RouteKeyOnce(key) ==
  /\ resolved' = ResolveAction(key, ctx)
  /\ leader_cancelled' = FALSE
  /\ UNCHANGED ctx

\* on_key, lines 251-271: resolve the key; if nothing resolves while a leader
\* menu is pending, cancel the menu, take a new snapshot and resolve again
RouteKey(key) ==
  IF ResolveAction(key, ctx) = "none" /\ ctx.leader_pending
  THEN /\ ctx' = [ctx EXCEPT !.leader_pending = FALSE]
       /\ resolved' = ResolveAction(key, [ctx EXCEPT !.leader_pending = FALSE])
       /\ leader_cancelled' = TRUE
  ELSE /\ resolved' = ResolveAction(key, ctx)
       /\ leader_cancelled' = FALSE
       /\ UNCHANGED ctx

OnKey(key) ==
  /\ checked = "" /\ key_pressed = ""
  /\ ~ctx.modal_open
  /\ key_pressed' = key
  /\ RouteKey(key)
  /\ checked' = ""
  /\ verdict' = ""
  /\ UNCHANGED command
  /\ UNCHANGED <<appVars, editVars>>

InitKeys == InitState /\ EmptyEditor /\ IdleScreens /\ cmdBudget = MaxCmds

NextKeys ==
  \/ ContextChange
  \/ \E name \in ActionNames : CheckActionCall(name)
  \/ \E key \in Keys : OnKey(key)

SpecKeys == InitKeys /\ [][NextKeys]_vars

\* ---- command mode (main.py, on_key and _handle_command_input)
\* the keys pressed in SpecCommand
CommandKeys ==
  {"colon", "escape", "enter", "backspace", "delete", "space", "question_mark",
   "e", "q", "r", "ctrl+q"}

\* event.character of a key ("" : None or not a single character)
Character(key) ==
  CASE key = "colon" -> ":"
    [] key = "space" -> " "
    [] key = "question_mark" -> "?"
    [] key \in {"e", "q", "r"} -> key
    [] OTHER -> ""

\* event.character == ":" or event.key in {":", "colon", "shift+semicolon"}
IsCommandStart(key) == Character(key) = ":" \/ key \in {":", "colon", "shift+semicolon"}

\* str.strip() of a buffer
RECURSIVE LStrip(_)
LStrip(b) == IF b # <<>> /\ Head(b) = " " THEN LStrip(Tail(b)) ELSE b

RECURSIVE RStrip(_)
RStrip(b) ==
  IF b # <<>> /\ b[Len(b)] = " " THEN RStrip(SubSeq(b, 1, Len(b) - 1)) ELSE b

Strip(b) == RStrip(LStrip(b))

\* normalized.split()[0]: the characters of the command up to the first blank
RECURSIVE FirstWord(_)
FirstWord(b) ==
  IF b = <<>> \/ Head(b) = " " THEN <<>> ELSE <<Head(b)>> \o FirstWord(Tail(b))

\* _run_command and _execute_command_action: the action whose handler runs for
\* a stripped command ("" : none runs)
RunCommand(cmd, c) ==
  IF cmd = <<>> THEN ""
  ELSE IF FirstWord(cmd) = <<"q">> THEN "quit"
  ELSE IF FirstWord(cmd) = <<"r">>
    THEN (IF IsAllowed(c, "execute_query") THEN "execute_query" ELSE "")
  ELSE ""

\* fault: command mode starts in every focus and vim mode
handle_command_input_anywhere(cm, key, c) ==
  IF ~cm.mode THEN
    IF ~IsCommandStart(key) THEN [cm EXCEPT !.handled = FALSE, !.ran = ""]
    ELSE [mode |-> TRUE, buffer |-> <<>>, handled |-> TRUE, ran |-> ""]
  ELSE [cm EXCEPT !.handled = TRUE, !.ran = ""]

\* _handle_command_input (with _start_command_mode, _exit_command_mode and
\* _run_command): _command_mode and _command_buffer afterwards, whether it
\* returned True, and the action run
handle_command_input(cm, key, c) ==
  IF ~cm.mode THEN
    IF ~IsCommandStart(key) THEN [cm EXCEPT !.handled = FALSE, !.ran = ""]
    ELSE IF c.focus = "query" /\ c.vim_mode = "insert"
      THEN [cm EXCEPT !.handled = FALSE, !.ran = ""]
    ELSE [mode |-> TRUE, buffer |-> <<>>, handled |-> TRUE, ran |-> ""]
  ELSE IF key = "escape" THEN
    [mode |-> FALSE, buffer |-> <<>>, handled |-> TRUE, ran |-> ""]
  ELSE IF key = "enter" THEN
    [mode |-> FALSE, buffer |-> <<>>, handled |-> TRUE,
     ran |-> RunCommand(Strip(cm.buffer), c)]
  ELSE IF key \in {"backspace", "delete"} THEN
    IF cm.buffer # <<>>
    THEN [cm EXCEPT !.buffer = SubSeq(@, 1, Len(@) - 1), !.handled = TRUE, !.ran = ""]
    ELSE [mode |-> FALSE, buffer |-> <<>>, handled |-> TRUE, ran |-> ""]
  ELSE IF Character(key) # ""
    THEN [cm EXCEPT !.buffer = Append(@, Character(key)), !.handled = TRUE, !.ran = ""]
  ELSE [cm EXCEPT !.handled = TRUE, !.ran = ""]

\* SSMSTUI.on_key: nothing with a modal open; else the command input; else the
\* key router.  _start_command_mode cancels a pending leader menu.
on_key(key) ==
  /\ checked = ""
  /\ ~(command.mode /\ ~ctx.modal_open /\ Character(key) # ""
         /\ Len(command.buffer) >= MaxCommandLen)
  /\ key_pressed' = key
  /\ IF ctx.modal_open THEN
       /\ resolved' = "none"
       /\ leader_cancelled' = FALSE
       /\ command' = [command EXCEPT !.handled = FALSE, !.ran = ""]
       /\ UNCHANGED ctx
     ELSE IF handle_command_input(command, key, ctx).handled THEN
       /\ command' = handle_command_input(command, key, ctx)
       /\ resolved' = "none"
       /\ leader_cancelled' = FALSE
       /\ ctx' = IF ~command.mode THEN [ctx EXCEPT !.leader_pending = FALSE] ELSE ctx
     ELSE
       /\ command' = handle_command_input(command, key, ctx)
       /\ RouteKey(key)
  /\ checked' = ""
  /\ verdict' = ""
  /\ UNCHANGED <<appVars, editVars>>

NextCommand ==
  \/ ContextChange
  \/ \E key \in CommandKeys : on_key(key)

SpecCommand == InitKeys /\ [][NextCommand]_vars

\* ---- the worker fed with exec frames of several connection configs
TunnelHosts == {"t1", "t2"}

\* ConnectionConfig.tunnel: absent, present but disabled, or enabled
TunnelConfigs ==
  {[present |-> FALSE, enabled |-> FALSE, host |-> ""]}
    \cup {[present |-> TRUE, enabled |-> e, host |-> h] : e \in BOOLEAN, h \in TunnelHosts}

\* _tunnel_key(config); port, username, auth_type, password and key_path are
\* the same in every config here, so the host stands for the tuple
TunnelKeyOf(cfg) ==
  IF ~cfg.present \/ ~cfg.enabled THEN NoTunnel ELSE cfg.host

\* ProcessWorkerClient.execute sends exec{id, query, config} for a config cfg
SendExec(cfg, q) ==
  /\ client # NoId
  /\ worker = "up"
  /\ next_id \in Ids
  /\ next_id' = NextIdAfter(next_id)
  /\ c2w' = Append(c2w, ExecFrame(next_id, q, TunnelKeyOf(cfg), "known"))
  /\ UNCHANGED <<workerVars, w2c, client, clientGen, client_current_id, settingVars, connVars,
                 txVars, timerVars, histVars, peerVars, query_executing, query_worker,
                 nreq, tasks, fired, ncmd>>
  /\ UNCHANGED <<lifeVars, extVars>>

InitTunnel == InitState /\ EmptyEditor /\ IdleScreens /\ cmdBudget = MaxTunnelCmds

NextTunnel ==
  \/ \E tk \in {NoTunnel} : Connect(tk)
  \/ Disconnect
  \/ \E b \in {TRUE} : SetProcessWorkerWarmOnIdle(b)
  \/ WarmFire
  \/ \E cfg \in TunnelConfigs, q \in PeerQueries : SendExec(cfg, q)
  \/ WorkerPoll
  \/ WorkerRecv
  \/ ThreadRun
  \/ ThreadExit

SpecTunnel == InitTunnel /\ [][NextTunnel]_vars

InitLife == InitState /\ EmptyEditor /\ IdleScreens /\ cmdBudget = MaxLifeCmds

NextLife ==
  \/ \E tk \in {NoTunnel} : Connect(tk)
  \/ Disconnect
  \/ \E b \in BOOLEAN : SetProcessWorker(b)
  \/ \E b \in BOOLEAN : SetProcessWorkerWarmOnIdle(b)
  \/ \E sec \in ShutdownSeconds : SetProcessWorkerAutoShutdown(sec)
  \/ WarmFire
  \/ \E lu \in 0..MaxLifeCmds : TimerFire(lu)
  \/ Unmount

SpecLife == InitLife /\ [][NextLife]_vars

\* ====================================================== the motion functions
\* domains/query/editing/motions.py.  A text is a sequence of characters, a
\* position is <<row, col>>, rows and columns count from 0 as in the code.
Newline == "\n"
Chars == {"a", " ", "(", ")", Newline}
TargetChars == {"", "a", ")"}    \* the char argument: None, a word character, a bracket

RECURSIVE TextsOfLen(_)
TextsOfLen(n) ==
  IF n = 0 THEN {<<>>} ELSE {Append(t, c) : t \in TextsOfLen(n - 1), c \in Chars}

Texts == UNION {TextsOfLen(n) : n \in 0..MaxTextLen}
CursorRows == (0 - 1)..(MaxTextLen + 1)
CursorCols == (0 - 1)..(MaxTextLen + 1)

Min2(a, b) == IF a <= b THEN a ELSE b

Max2(a, b) == IF a >= b THEN a ELSE b

MinOf(S) == CHOOSE x \in S : \A y \in S : x <= y

MaxOf(S) == CHOOSE x \in S : \A y \in S : x >= y

\* text.split("\n")
RECURSIVE split(_)
split(text) ==
  IF \A i \in 1..Len(text) : text[i] # Newline
  THEN <<text>>
  ELSE LET i == MinOf({j \in 1..Len(text) : text[j] = Newline})
       IN <<SubSeq(text, 1, i - 1)>> \o split(SubSeq(text, i + 1, Len(text)))

\* lines[r] and line[i] with the code's 0-based indices
Line(lines, r) == lines[r + 1]

At(line, i) == line[i + 1]

normalize(text, row, col) ==
  LET lines == split(text)
      r == Max2(0, Min2(row, Len(lines) - 1))
  IN [lines |-> lines, row |-> r, col |-> Max2(0, Min2(col, Len(Line(lines, r))))]

isspace(ch) == ch \in {" ", Newline}

\* the alphanumeric characters of the texts
Alnum == {"a", "b", "e", "g", "h", "l", "m", "p", "t"}

is_word_char(ch) == ch \in Alnum \cup {"_"}

is_WORD_char(ch) == ~isspace(ch)

\* not _is_word_char(ch) and not ch.isspace()
is_punct(ch) == ~is_word_char(ch) /\ ~isspace(ch)

\* while col < limit and P(line[col + off]): col += 1
WhileFwd(P(_), line, col, limit, off) ==
  IF col >= limit THEN col
  ELSE MinOf({i \in col..limit : i = limit \/ ~P(At(line, i + off))})

\* while col > 0 and P(line[col - 1]): col -= 1
WhileBack(P(_), line, col) ==
  IF col <= 0 THEN col
  ELSE MaxOf({i \in 0..col : i = 0 \/ ~P(At(line, i - 1))})

motion_left(text, row, col, char) ==
  LET n == normalize(text, row, col) IN <<n.row, Max2(0, n.col - 1)>>

motion_down(text, row, col, char) ==
  LET n == normalize(text, row, col)
      new_row == Min2(n.row + 1, Len(n.lines) - 1)
  IN <<new_row, Min2(n.col, Len(Line(n.lines, new_row)))>>

motion_up(text, row, col, char) ==
  LET n == normalize(text, row, col)
      new_row == Max2(0, n.row - 1)
  IN <<new_row, Min2(n.col, Len(Line(n.lines, new_row)))>>

\* the fault: the column is not held at the end of the line
motion_right_unclamped(text, row, col, char) ==
  LET n == normalize(text, row, col) IN <<n.row, n.col + 1>>

motion_right(text, row, col, char) ==
  LET n == normalize(text, row, col)
  IN <<n.row, Min2(n.col + 1, Len(Line(n.lines, n.row)))>>

\* "If at end of line, try next line": the column on the next line
NextLineStart(lines, row) ==
  WhileFwd(isspace, Line(lines, row + 1), 0, Len(Line(lines, row + 1)), 0)

motion_word(text, row, col, char) ==
  LET n == normalize(text, row, col)
      line == Line(n.lines, n.row)
      c1 == WhileFwd(is_word_char, line, n.col, Len(line), 0)
      c2 == WhileFwd(is_punct, line, c1, Len(line), 0)
      c3 == WhileFwd(isspace, line, c2, Len(line), 0)
  IN IF c3 >= Len(line) /\ n.row < Len(n.lines) - 1
     THEN <<n.row + 1, NextLineStart(n.lines, n.row)>>
     ELSE <<n.row, c3>>

motion_WORD(text, row, col, char) ==
  LET n == normalize(text, row, col)
      line == Line(n.lines, n.row)
      c1 == WhileFwd(is_WORD_char, line, n.col, Len(line), 0)
      c2 == WhileFwd(isspace, line, c1, Len(line), 0)
  IN IF c2 >= Len(line) /\ n.row < Len(n.lines) - 1
     THEN <<n.row + 1, NextLineStart(n.lines, n.row)>>
     ELSE <<n.row, c2>>

\* the fault: the cursor is left where it is
motion_word_back_stays(text, row, col, char) ==
  LET n == normalize(text, row, col) IN <<n.row, n.col>>

motion_word_back(text, row, col, char) ==
  LET n == normalize(text, row, col)
      up == n.col = 0 /\ n.row > 0
      r == IF up THEN n.row - 1 ELSE n.row
      line == Line(n.lines, r)
      c0 == IF up THEN Len(line) ELSE n.col
      c1 == WhileBack(isspace, line, c0)
      c2 == IF c1 > 0
            THEN IF is_word_char(At(line, c1 - 1))
                 THEN WhileBack(is_word_char, line, c1)
                 ELSE WhileBack(is_punct, line, c1)
            ELSE c1
  IN <<r, c2>>

motion_WORD_back(text, row, col, char) ==
  LET n == normalize(text, row, col)
      up == n.col = 0 /\ n.row > 0
      r == IF up THEN n.row - 1 ELSE n.row
      line == Line(n.lines, r)
      c0 == IF up THEN Len(line) ELSE n.col
      c1 == WhileBack(isspace, line, c0)
  IN <<r, WhileBack(is_WORD_char, line, c1)>>

motion_word_end(text, row, col, char) ==
  LET n == normalize(text, row, col)
      line == Line(n.lines, n.row)
      c0 == IF n.col < Len(line) THEN n.col + 1 ELSE n.col
      c1 == WhileFwd(isspace, line, c0, Len(line), 0)
      down == c1 >= Len(line) /\ n.row < Len(n.lines) - 1
      r == IF down THEN n.row + 1 ELSE n.row
      line2 == Line(n.lines, r)
      c2 == IF down THEN NextLineStart(n.lines, n.row) ELSE c1
      c3 == IF c2 < Len(line2)
            THEN IF is_word_char(At(line2, c2))
                 THEN WhileFwd(is_word_char, line2, c2, Len(line2) - 1, 1)
                 ELSE WhileFwd(is_punct, line2, c2, Len(line2) - 1, 1)
            ELSE c2
  IN <<r, c3>>

motion_WORD_end(text, row, col, char) ==
  LET n == normalize(text, row, col)
      line == Line(n.lines, n.row)
      c0 == IF n.col < Len(line) THEN n.col + 1 ELSE n.col
      c1 == WhileFwd(isspace, line, c0, Len(line), 0)
      down == c1 >= Len(line) /\ n.row < Len(n.lines) - 1
      r == IF down THEN n.row + 1 ELSE n.row
      line2 == Line(n.lines, r)
      c2 == IF down THEN NextLineStart(n.lines, n.row) ELSE c1
  IN <<r, WhileFwd(is_WORD_char, line2, c2, Len(line2) - 1, 1)>>

motion_line_start(text, row, col, char) ==
  LET n == normalize(text, row, col) IN <<n.row, 0>>

motion_line_end(text, row, col, char) ==
  LET n == normalize(text, row, col) IN <<n.row, Len(Line(n.lines, n.row))>>

motion_last_line(text, row, col, char) ==
  LET n == normalize(text, row, col) IN <<Len(n.lines) - 1, 0>>

motion_find_char(text, row, col, char) ==
  LET n == normalize(text, row, col)
      line == Line(n.lines, n.row)
      found == {i \in (n.col + 1)..(Len(line) - 1) : At(line, i) = char}
  IN IF char = "" \/ found = {} THEN <<n.row, n.col>> ELSE <<n.row, MinOf(found)>>

motion_find_char_back(text, row, col, char) ==
  LET n == normalize(text, row, col)
      line == Line(n.lines, n.row)
      found == {i \in 0..(n.col - 1) : At(line, i) = char}
  IN IF char = "" \/ found = {} THEN <<n.row, n.col>> ELSE <<n.row, MaxOf(found)>>

motion_till_char(text, row, col, char) ==
  LET n == normalize(text, row, col)
      result == motion_find_char(text, n.row, n.col, char)
  IN IF char = "" THEN <<n.row, n.col>>
     ELSE IF result[2] > n.col THEN <<n.row, result[2] - 1>> ELSE result

motion_till_char_back(text, row, col, char) ==
  LET n == normalize(text, row, col)
      result == motion_find_char_back(text, n.row, n.col, char)
  IN IF char = "" THEN <<n.row, n.col>>
     ELSE IF result[2] < n.col THEN <<n.row, result[2] + 1>> ELSE result

BRACKET_PAIRS ==
  [b \in {"(", ")", "[", "]", "{", "}"} |->
     CASE b = "(" -> ")" [] b = ")" -> "(" [] b = "[" -> "]"
       [] b = "]" -> "[" [] b = "{" -> "}" [] b = "}" -> "{"]

\* the fault: the first closing bracket is taken, whatever the depth
MatchForwardFlat(lines, r, c, ch, target, depth, start_pos) ==
  LET hits == {p \in (r..(Len(lines) - 1)) \X (0..MaxBracketLen) :
                 /\ p[1] > r \/ p[2] >= c
                 /\ p[2] < Len(Line(lines, p[1]))
                 /\ At(Line(lines, p[1]), p[2]) = target}
  IN IF hits = {} THEN start_pos
     ELSE CHOOSE p \in hits :
            \A q \in hits : p[1] < q[1] \/ (p[1] = q[1] /\ p[2] <= q[2])

\* the forward loop of motion_matching_bracket from (r, c); start_pos (the
\* caller's value for no match) when the text ends before depth returns to 0
RECURSIVE MatchForward(_, _, _, _, _, _, _)
MatchForward(lines, r, c, ch, target, depth, start_pos) ==
  IF r >= Len(lines) THEN start_pos
  ELSE IF c >= Len(Line(lines, r))
       THEN MatchForward(lines, r + 1, 0, ch, target, depth, start_pos)
       ELSE LET x == At(Line(lines, r), c)
            IN IF x = ch
               THEN MatchForward(lines, r, c + 1, ch, target, depth + 1, start_pos)
               ELSE IF x = target /\ depth - 1 = 0
                    THEN <<r, c>>
                    ELSE IF x = target
                         THEN MatchForward(lines, r, c + 1, ch, target, depth - 1, start_pos)
                         ELSE MatchForward(lines, r, c + 1, ch, target, depth, start_pos)

\* the backward loop of motion_matching_bracket from (r, c)
RECURSIVE MatchBackward(_, _, _, _, _, _, _)
MatchBackward(lines, r, c, ch, target, depth, start_pos) ==
  IF r < 0 THEN start_pos
  ELSE IF c < 0
       THEN IF r - 1 >= 0
            THEN MatchBackward(lines, r - 1, Len(Line(lines, r - 1)) - 1, ch, target,
                               depth, start_pos)
            ELSE start_pos
       ELSE LET x == At(Line(lines, r), c)
            IN IF x = ch
               THEN MatchBackward(lines, r, c - 1, ch, target, depth + 1, start_pos)
               ELSE IF x = target /\ depth - 1 = 0
                    THEN <<r, c>>
                    ELSE IF x = target
                         THEN MatchBackward(lines, r, c - 1, ch, target, depth - 1, start_pos)
                         ELSE MatchBackward(lines, r, c - 1, ch, target, depth, start_pos)

\* no bracket found: the motion returns MotionResult(position=start_pos)
NoMatch == <<>>

\* motion_matching_bracket: the position returned and whether a range comes
\* with it
MatchingBracket(text, row, col) ==
  LET n == normalize(text, row, col)
      line == Line(n.lines, n.row)
      start_pos == <<n.row, n.col>>
      ahead == {i \in n.col..(Len(line) - 1) : At(line, i) \in DOMAIN BRACKET_PAIRS}
      found ==
        IF n.col >= Len(line) THEN NoMatch
        ELSE IF At(line, n.col) \notin DOMAIN BRACKET_PAIRS /\ ahead = {} THEN NoMatch
        ELSE LET c == IF At(line, n.col) \in DOMAIN BRACKET_PAIRS THEN n.col ELSE MinOf(ahead)
                 ch == At(line, c)
             IN IF ch \in {"(", "[", "{"}
                THEN MatchForward(n.lines, n.row, c + 1, ch, BRACKET_PAIRS[ch], 1, NoMatch)
                ELSE MatchBackward(n.lines, n.row, c - 1, ch, BRACKET_PAIRS[ch], 1, NoMatch)
  IN [position |-> IF found = NoMatch THEN start_pos ELSE found, range |-> found # NoMatch]

motion_matching_bracket(text, row, col, char) == MatchingBracket(text, row, col).position

MotionKeys ==
  {"h", "j", "k", "l", "w", "W", "b", "B", "e", "E", "0", "$", "G", "f", "F", "t", "T", "%"}

\* MOTIONS[key](text, row, col, char).position
MOTIONS(key, text, row, col, char) ==
  CASE key = "h" -> motion_left(text, row, col, char)
    [] key = "j" -> motion_down(text, row, col, char)
    [] key = "k" -> motion_up(text, row, col, char)
    [] key = "l" -> motion_right(text, row, col, char)
    [] key = "w" -> motion_word(text, row, col, char)
    [] key = "W" -> motion_WORD(text, row, col, char)
    [] key = "b" -> motion_word_back(text, row, col, char)
    [] key = "B" -> motion_WORD_back(text, row, col, char)
    [] key = "e" -> motion_word_end(text, row, col, char)
    [] key = "E" -> motion_WORD_end(text, row, col, char)
    [] key = "0" -> motion_line_start(text, row, col, char)
    [] key = "$" -> motion_line_end(text, row, col, char)
    [] key = "G" -> motion_last_line(text, row, col, char)
    [] key = "f" -> motion_find_char(text, row, col, char)
    [] key = "F" -> motion_find_char_back(text, row, col, char)
    [] key = "t" -> motion_till_char(text, row, col, char)
    [] key = "T" -> motion_till_char_back(text, row, col, char)
    [] key = "%" -> motion_matching_bracket(text, row, col, char)

\* one call of a registered motion on the text and cursor it is handed (the
\* functions are pure: a behaviour is one call on one input)
ApplyMotion(key, char) ==
  /\ motion_key = ""
  /\ motion_key' = key
  /\ motion_char' = char
  /\ motion_pos' = MOTIONS(key, ed_text, cursor_row, cursor_col, char)
  /\ UNCHANGED <<ed_text, cursor_row, cursor_col, undoVars, trail, keyVars, appVars>>

InitMotion ==
  /\ InitState
  /\ IdleScreens
  /\ cmdBudget = MaxCmds
  /\ ed_text \in Texts
  /\ cursor_row \in CursorRows
  /\ cursor_col \in CursorCols
  /\ motion_key = ""
  /\ motion_char = ""
  /\ motion_pos = <<0, 0>>
  /\ EmptyHistory

NextMotion == \E key \in MotionKeys, char \in TargetChars : ApplyMotion(key, char)

SpecMotion == InitMotion /\ [][NextMotion]_vars

\* one more edit command of the user
EditStep == edits < cmdBudget /\ edits' = edits + 1

\* ---- motions applied one after the other, each from the position the one
\* before returned
AlphaBetaGamma ==
  <<"a", "l", "p", "h", "a", " ", "b", "e", "t", "a", " ", "g", "a", "m", "m", "a">>

WalkKeys == {"w", "b", "e", "$"}

ChainMotion(key) ==
  /\ EditStep
  /\ motion_key' = key
  /\ motion_pos' = MOTIONS(key, ed_text, cursor_row, cursor_col, "")
  /\ cursor_row' = motion_pos'[1]
  /\ cursor_col' = motion_pos'[2]
  /\ trail' = Append(trail, key)
  /\ UNCHANGED <<ed_text, motion_char, undo_snapshots, undo_index, last_edit, before_op,
                 after_op, keyVars, appVars>>

InitWalk ==
  /\ InitState
  /\ IdleScreens
  /\ cmdBudget = MaxWalkCmds
  /\ ed_text = AlphaBetaGamma
  /\ cursor_row = 0
  /\ cursor_col = 0
  /\ motion_key = ""
  /\ motion_char = ""
  /\ motion_pos = <<0, 0>>
  /\ EmptyHistory

NextWalk == \E key \in WalkKeys : ChainMotion(key)

SpecWalk == InitWalk /\ [][NextWalk]_vars

\* ---- % on texts of brackets of two types, from a cursor inside the text
BracketChars == {"(", ")", "[", "]", "a", Newline}

RECURSIVE BracketTextsOfLen(_)
BracketTextsOfLen(n) ==
  IF n = 0 THEN {<<>>}
  ELSE {Append(t, c) : t \in BracketTextsOfLen(n - 1), c \in BracketChars}

BracketTexts == UNION {BracketTextsOfLen(n) : n \in 0..MaxBracketLen}

InitBracket ==
  /\ InitState
  /\ IdleScreens
  /\ cmdBudget = MaxCmds
  /\ ed_text \in BracketTexts
  /\ cursor_row \in 0..(Len(split(ed_text)) - 1)
  /\ cursor_col \in 0..Len(Line(split(ed_text), cursor_row))
  /\ motion_key = ""
  /\ motion_char = ""
  /\ motion_pos = <<0, 0>>
  /\ EmptyHistory

NextBracket == \E key \in {"%"} : ApplyMotion(key, "")

SpecBracket == InitBracket /\ [][NextBracket]_vars

\* ================================================= the editor: delete and undo
\* QueryMixin._delete_with_motion, _push_undo_state, action_undo, action_redo
\* (domains/query/ui/mixins/query.py).  A snapshot is <<text, row, col>>.
UndoMaxDepth == 200

EditTexts == UNION {TextsOfLen(n) : n \in 0..MaxEditLen}
DeleteMotions == {"h", "0", "$", "f"}

Editor == <<ed_text, cursor_row, cursor_col>>

\* "\n".join(lines)
RECURSIVE join(_)
join(lines) ==
  IF Len(lines) = 1 THEN lines[1]
  ELSE lines[1] \o <<Newline>> \o join(Tail(lines))

\* MotionResult.range of the call, for the motions whose range stays on the
\* cursor's line: the row, the first column and the column after the last one
\* (an inclusive range ends one column later; a range ends with its line)
MotionRange(key, text, row, col, char) ==
  LET n == normalize(text, row, col)
      len == Len(Line(n.lines, n.row))
  IN CASE key = "h" -> [has |-> TRUE, row |-> n.row,
                        from |-> motion_left(text, row, col, char)[2], to |-> n.col]
       [] key = "0" -> [has |-> TRUE, row |-> n.row, from |-> 0, to |-> n.col]
       [] key = "$" -> [has |-> TRUE, row |-> n.row, from |-> n.col, to |-> len]
       [] key = "f" -> [has |-> motion_find_char(text, row, col, char) # <<n.row, n.col>>,
                        row |-> n.row, from |-> n.col,
                        to |-> Min2(motion_find_char(text, row, col, char)[2] + 1, len)]

\* operator_delete(text, range): <<text', row', col'>>
operator_delete(text, rng) ==
  LET lines == split(text)
      line == Line(lines, rng.row)
      cut == SubSeq(line, 1, rng.from) \o SubSeq(line, rng.to + 1, Len(line))
  IN <<join([lines EXCEPT ![rng.row + 1] = cut]), rng.row, Min2(rng.from, Len(cut))>>

\* UndoHistory.push(text, row, col): the tail after the pointer is dropped, the
\* oldest snapshot goes when the depth is reached
HistoryPush(snapshots, index, state) ==
  LET kept == Append(SubSeq(snapshots, 1, index), state)
  IN IF Len(kept) > UndoMaxDepth THEN Tail(kept) ELSE kept

can_undo == undo_index > 0

can_redo == undo_index < Len(undo_snapshots)

\* what redo() can hand back: the history holds the pushed snapshots and
\* nothing else, so it is one of them or None
RedoStates == {undo_snapshots[i] : i \in 1..Len(undo_snapshots)} \cup {<<>>}

DeleteWithMotion(key, char) ==
  \E rng \in {MotionRange(key, ed_text, cursor_row, cursor_col, char)} :
  \E op_result \in {operator_delete(ed_text, rng)} :
     /\ EditStep
     /\ IF ~rng.has
        THEN /\ last_edit' = "none"
             /\ UNCHANGED <<ed_text, cursor_row, cursor_col, undo_snapshots, undo_index,
                            before_op, after_op>>
        ELSE /\ undo_snapshots' = HistoryPush(undo_snapshots, undo_index, Editor)
             /\ undo_index' = Len(undo_snapshots')
             /\ ed_text' = op_result[1]
             /\ cursor_row' = op_result[2]
             /\ cursor_col' = op_result[3]
             /\ last_edit' = "operator"
             /\ before_op' = Editor
             /\ after_op' = op_result
     /\ UNCHANGED <<motion_key, motion_char, motion_pos, trail, keyVars, appVars>>

action_undo ==
  /\ EditStep
  /\ IF ~can_undo
     THEN /\ last_edit' = "none"
          /\ UNCHANGED <<ed_text, cursor_row, cursor_col, undo_index>>
     ELSE /\ undo_index' = undo_index - 1
          /\ ed_text' = undo_snapshots[undo_index][1]
          /\ cursor_row' = undo_snapshots[undo_index][2]
          /\ cursor_col' = undo_snapshots[undo_index][3]
          /\ last_edit' = IF last_edit = "operator" THEN "undo" ELSE "none"
  /\ UNCHANGED <<undo_snapshots, before_op, after_op, motion_key, motion_char, motion_pos,
                 trail, keyVars, appVars>>

action_redo ==
  /\ EditStep
  /\ last_edit' = IF last_edit = "undo" THEN "redo" ELSE "none"
  /\ IF ~can_redo
     THEN UNCHANGED <<ed_text, cursor_row, cursor_col, undo_index>>
     ELSE /\ undo_index' = undo_index + 1
          /\ \E state \in RedoStates :
               IF state = <<>>
               THEN UNCHANGED <<ed_text, cursor_row, cursor_col>>
               ELSE /\ ed_text' = state[1]
                    /\ cursor_row' = state[2]
                    /\ cursor_col' = state[3]
  /\ UNCHANGED <<undo_snapshots, before_op, after_op, motion_key, motion_char, motion_pos,
                 trail, keyVars, appVars>>

\* the motion set of the engine
MotionSet == MotionKeys \cup {"gg", "ge", "gE"}

\* the keys the yank and change actions hand to _yank_with_motion and
\* _change_with_motion ("_" is the line motion of yy and cc)
YankKeys == {"_", "w", "W", "b", "B", "e", "E", "0", "$", "h", "l", "k", "j", "G", "%"}
ChangeKeys == {"_", "$"}

\* a lookup that finds no motion: the action ends there
MotionMissing(key, how) ==
  /\ EditStep
  /\ motion_key' = key
  /\ last_edit' = how
  /\ UNCHANGED <<ed_text, cursor_row, cursor_col, motion_char, motion_pos, undo_snapshots,
                 undo_index, before_op, after_op, trail, keyVars, appVars>>

\* action_g_word_end_back ("ge") and action_g_WORD_end_back ("gE"):
\* MOTIONS[key](text, row, col, None), then the cursor goes to the position
GoWithMotion(key) ==
  IF key \notin MotionKeys
  THEN MotionMissing(key, "KeyError")
  ELSE /\ EditStep
       /\ motion_key' = key
       /\ last_edit' = "none"
       /\ cursor_row' = MOTIONS(key, ed_text, cursor_row, cursor_col, "")[1]
       /\ cursor_col' = MOTIONS(key, ed_text, cursor_row, cursor_col, "")[2]
       /\ UNCHANGED <<ed_text, motion_char, motion_pos, undo_snapshots, undo_index,
                      before_op, after_op, trail, keyVars, appVars>>

\* _yank_with_motion(key): nothing of the editor changes (the text goes to
\* the clipboard)
YankWithMotion(key) ==
  IF key \notin MotionKeys
  THEN MotionMissing(key, "missing")
  ELSE /\ EditStep
       /\ motion_key' = key
       /\ last_edit' = "none"
       /\ UNCHANGED <<ed_text, cursor_row, cursor_col, motion_char, motion_pos,
                      undo_snapshots, undo_index, before_op, after_op, trail, keyVars, appVars>>

\* _change_with_motion(key): the range is deleted as by the delete operator
ChangeWithMotion(key) ==
  IF key \notin MotionKeys THEN MotionMissing(key, "missing") ELSE DeleteWithMotion(key, "")

\* the cursor of the text area lies inside its text
InitEdit ==
  /\ InitState
  /\ IdleScreens
  /\ cmdBudget = MaxEditCmds
  /\ ed_text \in EditTexts
  /\ cursor_row \in 0..(Len(split(ed_text)) - 1)
  /\ cursor_col \in 0..Len(Line(split(ed_text), cursor_row))
  /\ motion_key = ""
  /\ motion_char = ""
  /\ motion_pos = <<0, 0>>
  /\ EmptyHistory

NextEdit ==
  \/ \E key \in DeleteMotions, char \in TargetChars : DeleteWithMotion(key, char)
  \/ action_undo
  \/ action_redo
  \/ \E key \in {"ge", "gE"} : GoWithMotion(key)
  \/ \E key \in YankKeys : YankWithMotion(key)
  \/ \E key \in ChangeKeys : ChangeWithMotion(key)

SpecEdit == InitEdit /\ [][NextEdit]_vars

\* ======================================= the picker: a detected Docker container
\* (handlers/connection_picker.py)
SavedNames == {"pg-dev", "saved"}

PickerDbTypes == {"postgresql", "mysql"}

SavedHosts == {"localhost", "127.0.0.1", "172.17.0.2", "db.example.com"}

SavedPorts == {"5432", "3306"}

PickerDatabases == {"", "app"}

\* ConnectionConfig.tcp_endpoint: <<>> is None (a file-based connection)
Endpoints ==
  {<<>>} \cup {<<[host |-> h, port |-> p, database |-> d]>> :
                 h \in SavedHosts, p \in SavedPorts, d \in PickerDatabases}

SavedConfigs ==
  {[name |-> n, db_type |-> t, tcp_endpoint |-> e] :
     n \in SavedNames, t \in PickerDbTypes, e \in Endpoints}

SavedLists ==
  UNION {[1..n -> SavedConfigs] : n \in 0..MaxSaved}

\* DetectedContainer; port NoPort is None, database "" is None
Containers ==
  {[container_name |-> "pg-dev", db_type |-> "postgresql", host |-> h, port |-> p,
    database |-> d] :
     h \in {"localhost", "172.17.0.2"}, p \in {5432, NoPort}, d \in PickerDatabases}

\* str(container.port)
str(port) ==
  CASE port = 5432 -> "5432"
    [] port = 3306 -> "3306"
    [] port = NoPort -> "None"

\* the endpoint test of _find_matching_saved_connection, database ignored
endpoint_matches_any_database(conn, container) ==
  LET endpoint == conn.tcp_endpoint IN
  /\ Len(endpoint) > 0
  /\ conn.db_type = container.db_type
  /\ endpoint[1].host \in {"localhost", "127.0.0.1", container.host}
  /\ endpoint[1].port = str(container.port)

\* the endpoint test of _find_matching_saved_connection
endpoint_matches(conn, container) ==
  LET endpoint == conn.tcp_endpoint IN
  /\ Len(endpoint) > 0
  /\ conn.db_type = container.db_type
  /\ endpoint[1].host \in {"localhost", "127.0.0.1", container.host}
  /\ endpoint[1].port = str(container.port)
  /\ IF container.database # ""
       THEN endpoint[1].database = container.database
       ELSE TRUE

\* the loop of _find_matching_saved_connection from the i-th saved connection on:
\* the index of the connection returned, 0 for None
RECURSIVE FindFrom(_, _, _)
FindFrom(connections, container, i) ==
  IF i > Len(connections) THEN 0
  ELSE IF connections[i].name = container.container_name THEN i
  ELSE IF endpoint_matches(connections[i], container) THEN i
  ELSE FindFrom(connections, container, i + 1)

find_matching_saved_connection(connections, container) ==
  FindFrom(connections, container, 1)

\* DockerConnectionResultHandler.handle: config is the index of the saved
\* connection handed to connect_to_server, 0 for the config made from the container
DockerHandle ==
  /\ ~picker.handled
  /\ LET matching_config ==
           find_matching_saved_connection(picker.connections, picker.container)
     IN picker' = [picker EXCEPT !.handled = TRUE, !.config = matching_config]
  /\ UNCHANGED <<discovery, driver_import, azure, pwc, keyVars, editVars, queryVars>>

InitPicker ==
  /\ InitState /\ EmptyEditor /\ cmdBudget = MaxCmds
  /\ IdleDiscovery /\ IdleDriver /\ IdleAzure /\ IdleClient
  /\ \E connections \in SavedLists, container \in Containers :
       picker = [connections |-> connections, container |-> container,
                 handled |-> FALSE, config |-> 0]

NextPicker == DockerHandle

SpecPicker == InitPicker /\ [][NextPicker]_vars

\* ============================================ the picker screen: discovery
\* (connection_picker/screen.py, shared/app/services.py)
Providers == {"azure", "aws"}

Sources == {"docker"} \cup Providers

\* services.cloud_discovery: the CloudDiscovery of services.py, which defines
\* load_mock_states and discover only, or an object handed to build_app_services
\* that also defines load_seed_states (returning None, or a state per provider)
DiscoveryServices == {"CloudDiscovery", "unseeded", "seeded"}

\* what services.docker_detector() returns: <<status, containers>>
DockerResults ==
  {<<"available", {"c1"}>>, <<"available", {}>>, <<"not_installed", {}>>,
   <<"not_running", {}>>, <<"not_accessible", {}>>}

\* ProviderState() / ProviderState(loading=True) / what discover returns /
\* ProviderState(status=ERROR, loading=False, error=...)
ProviderIdle == [loading |-> FALSE, status |-> "idle"]

ProviderLoading == [loading |-> TRUE, status |-> "idle"]

DiscoveredStates == {[loading |-> FALSE, status |-> "loaded"]}

ProviderError == [loading |-> FALSE, status |-> "error"]

\* _on_containers_loaded: the status message ("" = None)
docker_status_message(status, containers) ==
  CASE status = "not_installed" -> "(Docker not detected)"
    [] status = "not_running" -> "(Docker not running)"
    [] status = "not_accessible" -> "(Docker not accessible)"
    [] status = "available" /\ containers = {} -> "(no database containers found)"
    [] OTHER -> ""

discoveryRest == <<picker, driver_import, azure, pwc, keyVars, editVars, queryVars>>

\* ConnectionPickerScreen.__init__ and on_mount, with _load_containers_async and
\* _load_cloud_providers_async
on_mount(headless) ==
  /\ discovery.mounted = "no"
  /\ LET created == [discovery EXCEPT
                       !.loading_docker = FALSE,
                       !.cloud_states = [p \in Providers |-> ProviderIdle]]
         docker == [created EXCEPT
                       !.loading_docker = TRUE,
                       !.workers = [@ EXCEPT !["docker"] = "running"]]
     IN discovery' =
          IF headless THEN [created EXCEPT !.mounted = "headless"]
          ELSE IF discovery.service = "CloudDiscovery"
            \* load_seed_states is not an attribute of CloudDiscovery
            THEN [docker EXCEPT !.mounted = "AttributeError"]
          ELSE IF discovery.service = "seeded"
            THEN [docker EXCEPT
                    !.mounted = "ok",
                    !.cloud_states = [p \in Providers |-> CHOOSE s \in DiscoveredStates : TRUE],
                    !.outcome = [s \in Sources |->
                                   IF s \in Providers THEN "ok" ELSE @[s]]]
          ELSE [docker EXCEPT
                  !.mounted = "ok",
                  !.cloud_states = [p \in Providers |-> ProviderLoading],
                  !.workers = [s \in Sources |-> "running"]]
  /\ UNCHANGED discoveryRest

\* _detect_docker_worker up to call_from_thread
detect_docker_worker(result) ==
  /\ discovery.mounted # "no"
  /\ discovery.workers["docker"] = "running"
  /\ discovery' = [discovery EXCEPT
       !.workers = [@ EXCEPT !["docker"] = "waiting"],
       !.ui_queue = Append(@, [fn |-> "_on_containers_loaded", source |-> "docker",
                               status |-> result[1], containers |-> result[2]])]
  /\ UNCHANGED discoveryRest

\* _on_containers_loaded on the UI thread
on_containers_loaded ==
  /\ discovery.mounted # "no"
  /\ discovery.ui_queue # <<>>
  /\ LET call == Head(discovery.ui_queue) IN
     /\ call.fn = "_on_containers_loaded"
     /\ discovery' = [discovery EXCEPT
          !.ui_queue = Tail(@),
          !.loading_docker = FALSE,
          !.docker_containers = call.containers,
          !.docker_status_message = docker_status_message(call.status, call.containers),
          !.workers = [@ EXCEPT !["docker"] = "finished"],
          !.outcome = [@ EXCEPT !["docker"] =
                         IF call.status = "available" THEN "ok" ELSE "failed"]]
  /\ UNCHANGED discoveryRest

\* _discover_provider_worker up to call_from_thread: discover returns a state or
\* raises
discover_provider_worker(provider, raised) ==
  /\ discovery.mounted # "no"
  /\ discovery.workers[provider] = "running"
  /\ \E new_state \in DiscoveredStates :
       discovery' = [discovery EXCEPT
         !.workers = [@ EXCEPT ![provider] = "waiting"],
         !.ui_queue = Append(@,
            IF raised
              THEN [fn |-> "_on_provider_error", source |-> provider, state |-> ProviderError]
              ELSE [fn |-> "_on_provider_loaded", source |-> provider, state |-> new_state])]
  /\ UNCHANGED discoveryRest

\* _on_provider_loaded on the UI thread; when the provider's UI adapter raises,
\* the exception reaches the worker's except clause, which posts _on_provider_error
on_provider_loaded(adapter_raises) ==
  /\ discovery.mounted # "no"
  /\ discovery.ui_queue # <<>>
  /\ LET call == Head(discovery.ui_queue) IN
     /\ call.fn = "_on_provider_loaded"
     /\ discovery' = [discovery EXCEPT
          !.cloud_states = [@ EXCEPT ![call.source] = call.state],
          !.ui_queue =
             IF adapter_raises
               THEN Append(Tail(@), [fn |-> "_on_provider_error", source |-> call.source,
                                     state |-> ProviderError])
               ELSE Tail(@),
          !.workers = [@ EXCEPT ![call.source] =
                         IF adapter_raises THEN "waiting" ELSE "finished"],
          !.outcome = [@ EXCEPT ![call.source] =
                         IF adapter_raises THEN @ ELSE "ok"]]
  /\ UNCHANGED discoveryRest

\* _on_provider_error on the UI thread
on_provider_error ==
  /\ discovery.mounted # "no"
  /\ discovery.ui_queue # <<>>
  /\ LET call == Head(discovery.ui_queue) IN
     /\ call.fn = "_on_provider_error"
     /\ discovery' = [discovery EXCEPT
          !.cloud_states = [@ EXCEPT ![call.source] = call.state],
          !.ui_queue = Tail(@),
          !.workers = [@ EXCEPT ![call.source] = "finished"],
          !.outcome = [@ EXCEPT ![call.source] = "failed"]]
  /\ UNCHANGED discoveryRest

InitDiscovery ==
  /\ InitState /\ EmptyEditor /\ cmdBudget = MaxCmds
  /\ IdlePicker /\ IdleDriver /\ IdleAzure /\ IdleClient
  /\ \E service \in DiscoveryServices :
       discovery = [mounted |-> "no", service |-> service,
                    loading_docker |-> FALSE, docker_status_message |-> "",
                    docker_containers |-> {},
                    cloud_states |-> [p \in Providers |-> ProviderIdle],
                    workers |-> [s \in Sources |-> "none"],
                    ui_queue |-> <<>>,
                    outcome |-> [s \in Sources |-> "pending"]]

Mount == \E headless \in BOOLEAN : on_mount(headless)

DetectDocker == \E result \in DockerResults : detect_docker_worker(result)

DiscoverProvider ==
  \E provider \in Providers, raised \in BOOLEAN : discover_provider_worker(provider, raised)

ProviderLoaded == \E adapter_raises \in BOOLEAN : on_provider_loaded(adapter_raises)

NextDiscovery ==
  \/ Mount
  \/ DetectDocker
  \/ on_containers_loaded
  \/ DiscoverProvider
  \/ ProviderLoaded
  \/ on_provider_error

SpecDiscovery == InitDiscovery /\ [][NextDiscovery]_vars

\* ================================================== importing a driver module
\* (connections/providers/driver.py)
\* what importlib.import_module(module_name) does: it returns the module or
\* raises; ModuleNotFoundError is a subclass of ImportError, the others are not
ImportOutcomes == {"module", "ImportError", "ModuleNotFoundError", "OSError", "RuntimeError"}

IsImportError(exc) == exc \in {"ImportError", "ModuleNotFoundError"}

ModuleNames == {"psycopg2", "pymysql", "mysql.connector"}

\* extra_name / package_name: "" stands for None and for the empty string
ExtraNames == {"", "postgres", "mysql"}

PackageNames == {"", "psycopg2-binary"}

\* os.environ.get("SQLIT_MOCK_DRIVER_ERROR"): "" stands for unset and for empty
MockDriverErrors == {"", "1"}

\* import_driver_module: the module, or the class of the exception it raises
import_driver_module(extra_name, package_name, mock_driver_error, outcome) ==
  IF mock_driver_error # "" /\ extra_name # "" /\ package_name # ""
    THEN "MissingDriverError"
  ELSE IF extra_name = "" \/ package_name = ""
    THEN outcome
  ELSE IF IsImportError(outcome)
    THEN "MissingDriverError"
  ELSE outcome

\* one call of import_driver_module by an adapter's connect
ImportDriver ==
  /\ ~driver_import.called
  /\ driver_import' = [driver_import EXCEPT
       !.called = TRUE,
       !.result = import_driver_module(driver_import.extra_name, driver_import.package_name,
                                       driver_import.mock_driver_error, driver_import.outcome)]
  /\ UNCHANGED <<picker, discovery, azure, pwc, keyVars, editVars, queryVars>>

InitDriver ==
  /\ InitState /\ EmptyEditor /\ cmdBudget = MaxCmds
  /\ IdlePicker /\ IdleDiscovery /\ IdleAzure /\ IdleClient
  /\ \E module_name \in ModuleNames, extra_name \in ExtraNames, package_name \in PackageNames,
        mock_driver_error \in MockDriverErrors, outcome \in ImportOutcomes :
       driver_import = [called |-> FALSE, module_name |-> module_name,
                        extra_name |-> extra_name, package_name |-> package_name,
                        mock_driver_error |-> mock_driver_error, outcome |-> outcome,
                        result |-> "none"]

NextDriver == ImportDriver

SpecDriver == InitDriver /\ [][NextDriver]_vars

\* ======================================================= the Azure SQL adapter
\* (db/adapters/azure_sql.py)
\* database names asked for; "" is None
AzureDatabases == {"", "main", "other", "master"}

\* AzureSQLAdapter.supports_multiple_databases
supports_multiple_databases == FALSE

\* the cursor of a SQL Server adapter that switches with USE: the connection
\* after the call and the cursor returned
get_cursor_for_database_use(conn, database) ==
  IF database = ""
    THEN [conn |-> conn, cursor |-> [database |-> conn.database]]
    ELSE [conn |-> [conn EXCEPT !.database = database,
                                !.statements = Append(@, <<"USE", database>>)],
          cursor |-> [database |-> database]]

\* AzureSQLAdapter._get_cursor_for_database: conn.cursor(), whatever the name
get_cursor_for_database(conn, database) ==
  [conn |-> conn, cursor |-> [database |-> conn.database]]

\* one _get_cursor_for_database call on the adapter's connection
CursorForDatabase(database) ==
  /\ azure.connected
  /\ Len(azure.cursors) < MaxCursors
  /\ LET got == get_cursor_for_database(azure.conn, database) IN
     azure' = [azure EXCEPT !.conn = got.conn,
                            !.cursors = Append(@, got.cursor),
                            !.requested = Append(@, database)]
  /\ UNCHANGED <<picker, discovery, driver_import, pwc, keyVars, editVars, queryVars>>

InitAzure ==
  /\ InitState /\ EmptyEditor /\ cmdBudget = MaxCmds
  /\ IdlePicker /\ IdleDiscovery /\ IdleDriver /\ IdleClient
  /\ \E database \in AzureDatabases \ {""} :
       azure = [connected |-> TRUE, config_database |-> database,
                conn |-> [database |-> database, statements |-> <<>>],
                cursors |-> <<>>, requested |-> <<>>]

NextAzure == \E database \in AzureDatabases : CursorForDatabase(database)

SpecAzure == InitAzure /\ [][NextAzure]_vars

\* ============================== ProcessWorkerClient called by any caller
\* (query/app/process_worker_client.py).  pwc.frames are the frames the client
\* wrote to the pipe, pwc.error the error of the outcome of the last execute
\* call that returned ("raised": it left on an exception), pwc.busy that an
\* execute call holds _execute_lock.
MaxClientCalls == 4

\* what the worker answers to an exec frame, or that the pipe is broken
WorkerAnswers == {"result", "cancelled", "error", "eof", "broken"}

\* _send: conn.send raises on a closed connection and on a broken pipe
SendRaises(c) == c.conn = "closed" \/ c.process = "ended"

\* fault: execute does not look at _closed
execute_begin_unchecked(c) ==
  [c EXCEPT !.next_id = @ + 1, !.current_id = c.next_id, !.busy = TRUE]

\* ProcessWorkerClient.execute, lines 99-105
execute_begin(c) ==
  IF c.closed THEN [c EXCEPT !.error = "Worker is closed."]
  ELSE [c EXCEPT !.next_id = @ + 1, !.current_id = c.next_id, !.busy = TRUE]

\* ProcessWorkerClient.execute, lines 107-140: the exec frame is sent and the
\* answer read
execute_rest(c, answer) ==
  IF SendRaises(c) \/ answer = "broken"
  THEN [c EXCEPT !.busy = FALSE, !.error = "raised"]
  ELSE [c EXCEPT !.frames = Append(@, "exec"), !.busy = FALSE, !.current_id = NoId,
                 !.error = CASE answer = "error" -> "Worker error."
                             [] answer = "eof" -> "Worker connection closed."
                             [] OTHER -> ""]

\* ProcessWorkerClient.close
close(c) ==
  IF c.closed THEN c
  ELSE [c EXCEPT !.closed = TRUE,
                 !.frames = IF SendRaises(c) THEN @ ELSE Append(@, "shutdown"),
                 !.conn = "closed",
                 !.process = "ended"]

\* ProcessWorkerClient.cancel_current
cancel_current(c) ==
  IF c.current_id = NoId \/ SendRaises(c) THEN c
  ELSE [c EXCEPT !.frames = Append(@, "cancel")]

clientRest == <<picker, discovery, driver_import, azure, keyVars, editVars, queryVars>>

\* a caller calls execute: the call takes the lock
ExecuteCall ==
  /\ pwc.ncalls < MaxClientCalls
  /\ ~pwc.busy
  /\ pwc' = [execute_begin(pwc) EXCEPT !.ncalls = @ + 1, !.last = "execute"]
  /\ UNCHANGED clientRest

\* the execute call in progress goes on to its end
ExecuteReturn(answer) ==
  /\ pwc.busy
  /\ pwc' = execute_rest(pwc, answer)
  /\ UNCHANGED clientRest

CloseCall ==
  /\ pwc.ncalls < MaxClientCalls
  /\ pwc' = [close(pwc) EXCEPT !.ncalls = @ + 1, !.last = "close", !.closes = @ + 1]
  /\ UNCHANGED clientRest

CancelCurrentCall ==
  /\ pwc.ncalls < MaxClientCalls
  /\ pwc' = [cancel_current(pwc) EXCEPT !.ncalls = @ + 1, !.last = "cancel_current"]
  /\ UNCHANGED clientRest

\* the worker process ends on its own
ProcessEnds ==
  /\ pwc.process = "alive"
  /\ pwc' = [pwc EXCEPT !.process = "ended"]
  /\ UNCHANGED clientRest

InitClient ==
  /\ InitState /\ EmptyEditor /\ cmdBudget = MaxCmds
  /\ IdlePicker /\ IdleDiscovery /\ IdleDriver /\ IdleAzure
  /\ pwc = NewClient

NextClient ==
  \/ ExecuteCall
  \/ \E answer \in WorkerAnswers : ExecuteReturn(answer)
  \/ CloseCall
  \/ CancelCurrentCall
  \/ ProcessEnds

SpecClient == InitClient /\ [][NextClient]_vars

\* ================================================================== claims
\* ---- helpers
\* the step is one in which the thread of run() sends its response
ThreadReplies == current_thread = "running" /\ current_thread' = "replied"

\* the step is one in which the worker reads an exec frame
WorkerReadsExec ==
  /\ worker = "up"
  /\ c2w # <<>>
  /\ c2w' = Tail(c2w)
  /\ client' = client
  /\ Head(c2w).type = "exec"

\* the step is one in which the execute call of request r reads a frame
ClientReads(r) ==
  /\ tasks[r].thr = "sent"
  /\ ~Closed(tasks[r].gen)
  /\ w2c # <<>>
  /\ w2c' = Tail(w2c)
  /\ client' = client

\* the worker, as the loop sees it when it reads a frame, has a query running
BusyAtRead == current_thread \in {"running", "replied"}

\* ---- C1
\* C1 (as stated): every exec{id} the worker has received gets exactly one
\* response carrying that id: never two, and exactly one once the worker is
\* done with the frame, that is the frame was refused or failed without a
\* query thread being started, or the thread started for it has sent its
\* response.  Violated: create_ssh_tunnel raising inside _ensure_tunnel leaves
\* _start_query and the loop, and the worker ends having sent nothing for id.
C1_ExactlyOneResponse ==
  \A id \in execsSeen :
    /\ replyCount[id] <= 1
    /\ (id \notin started => replyCount[id] = 1)
    /\ (id \in started /\ (current_id # id \/ current_thread # "running")
          => replyCount[id] = 1)

\* ---- C2
\* C2: an outcome that execute built from a frame was built from a frame whose
\* id is the id assigned to that call; a frame with another id at the head of
\* the pipe is consumed and the call keeps waiting.
C2_OnlyOwnFrames ==
  [][\A r \in Reqs :
       /\ (tasks'[r].out \in {"result", "cancelled", "error"} /\ tasks'[r].frameId # NoId
             => tasks'[r].frameId = tasks'[r].id)
       /\ (ClientReads(r) /\ tasks[r].id # Head(w2c).id => tasks'[r] = tasks[r])]_vars

\* a call has skipped a frame of another id and then returned the outcome of
\* its own frame
C2_Witness ==
  \E r \in Reqs :
    /\ tasks[r].thr = "over"
    /\ tasks[r].route = "worker"
    /\ tasks[r].frameId = tasks[r].id
    /\ tasks[r].id # NoId
    /\ peerC = 1
    /\ w2c = <<>>

\* ---- C3
\* C3: an exec frame read while a query thread is alive is answered with
\* error{id, "Worker is busy."}, leaves the worker's state (current id, thread,
\* cancellation flag, tunnel) and the set of started queries unchanged; and the
\* thread that was running still sends its own response for its own id.
C3_OneQueryAtATime ==
  [][/\ (WorkerReadsExec /\ BusyAtRead
           => /\ w2c' = Append(w2c, Reply("error", Head(c2w).id, "Worker is busy."))
              /\ started' = started
              /\ UNCHANGED workerVars)
     /\ (ThreadReplies
           => /\ Len(w2c') = Len(w2c) + 1
              /\ w2c'[Len(w2c')].id = current_id
              /\ w2c'[Len(w2c')].type \in {"result", "cancelled", "error"}
              /\ current_id \in started)]_vars

\* a second exec was refused as busy while the thread was running, and that
\* thread has since sent its response
C3_Witness ==
  /\ current_thread = "replied"
  /\ \E i \in 1..Len(w2c), j \in 1..Len(w2c) :
       /\ i < j
       /\ w2c[i].type = "error" /\ w2c[i].msg = "Worker is busy."
       /\ w2c[j].id = current_id /\ w2c[j].type = "result"
       /\ w2c[i].id # current_id

\* ---- C4
\* the step is one in which _run_query_async chooses where request r runs
Routes(r) == tasks[r].route = "none" /\ tasks'[r].route # "none"

\* a statement of the text begins or ends a transaction
TouchesTransaction(q) ==
  \E i \in 1..Len(split_statements(q)) :
    \/ is_transaction_start(split_statements(q)[i])
    \/ is_transaction_end(split_statements(q)[i])

C5_SameExecutorInTransaction ==
  [][(in_transaction /\ \E r \in Reqs : Routes(r)) => txExec' = txExec]_vars

\* ---- C6
\* C6: when run() chooses its response with is_cancelled set, the response is
\* never error{id}; and is_cancelled, once set for the current query, stays
\* set for as long as that query is the current one.
C6_NoErrorAfterCancel ==
  [][/\ (ThreadReplies /\ is_cancelled => w2c'[Len(w2c')].type # "error")
     /\ (is_cancelled /\ current_id' = current_id /\ worker' = "up" => is_cancelled')]_vars

\* the query was cancelled while running, and its thread then answered
\* cancelled{id}
C6_Witness ==
  /\ current_thread = "replied"
  /\ cancelledAtReply
  /\ w2c # <<>>
  /\ w2c[Len(w2c)].type = "cancelled"
  /\ w2c[Len(w2c)].id = current_id

\* ---- C7
\* the execute call of request r holds the lock of the live client with its
\* id assigned
InFlight(r) == tasks[r].gen = client /\ client # NoId /\ tasks[r].thr \in {"assigned", "sent"}

\* C7: cancel_current called while request r's execute is in flight (and the
\* pipe is open) writes exactly one frame, cancel{id of r}, and reads nothing;
\* a query thread that ends in an exception with is_cancelled set answers
\* cancelled{current id}; and execute, reading cancelled{id} for its own id,
\* returns the cancelled outcome (kept for as long as its coroutine lives).
C7_CancelCurrent ==
  [][/\ \A r \in Reqs :
          (query_worker # NoId /\ query_worker' = NoId /\ InFlight(r) /\ worker = "up")
            => /\ Len(c2w') = Len(c2w) + 1
               /\ c2w'[Len(c2w')].type = "cancel"
               /\ c2w'[Len(c2w')].id = tasks[r].id
               /\ w2c' = w2c
               /\ tasks'[r].thr = tasks[r].thr
     /\ (ThreadReplies /\ is_cancelled /\ w2c'[Len(w2c')].type # "result"
           => w2c'[Len(w2c')] = Reply("cancelled", current_id, ""))
     /\ \A r \in Reqs :
          (ClientReads(r) /\ Head(w2c) = Reply("cancelled", tasks[r].id, ""))
            => /\ tasks'[r].thr = "over"
               /\ (tasks[r].coro # "done" => tasks'[r].out = "cancelled")]_vars

\* the user cancelled request r, the worker saw the cancel before the query
\* ended, and r's execute has returned the cancelled outcome
C7_Witness ==
  \E r \in Reqs :
    /\ tasks[r].coro = "cancelling"
    /\ tasks[r].out = "cancelled"
    /\ tasks[r].frameId = tasks[r].id
    /\ cancelledAtReply
    /\ current_id = tasks[r].id

\* ---- C8
\* C8: an exec frame whose query splits into more than one statement is
\* answered by the worker with an error frame of that id and no query is
\* started for it; and the application routes every text of more than one
\* statement to the local multi-statement executor.
C8_MultiStatementLocal ==
  [][/\ (WorkerReadsExec /\ Len(split_statements(Head(c2w).query)) > 1
           => /\ Len(w2c') = Len(w2c) + 1
              /\ w2c'[Len(w2c')].type = "error"
              /\ w2c'[Len(w2c')].id = Head(c2w).id
              /\ started' = started
              /\ current_thread' # "running" \/ current_thread = "running")
     /\ \A r \in Reqs :
          (Routes(r) /\ Len(split_statements(tasks'[r].query)) > 1)
            => tasks'[r].route = "multi" /\ tasks'[r].thr = "running"]_vars

\* the worker has refused a two-statement exec, and a two-statement request
\* is running on the local multi-statement executor
C8_Witness ==
  /\ \E i \in 1..Len(w2c) :
       w2c[i].msg = "Multi-statement queries are not supported in the process worker."
  /\ \E r \in Reqs : tasks[r].route = "multi" /\ tasks[r].thr = "running"

\* ---- C9
\* C9 (amended): when the process worker is enabled and the client cannot be
\* started, the same request runs on the local executor and the notification
\* surfaced has severity "error".
C9_FallbackNotifiesError ==
  \A r \in Reqs :
    tasks[r].startFailed
      => /\ tasks[r].route = "local"
         /\ tasks[r].thr \in {"running", "over"}
         /\ tasks[r].exec # NoId
         /\ tasks[r].note = "error"

\* C9 (as stated): the notification surfaced is a warning.
C9_FallbackNotifiesWarning ==
  \A r \in Reqs :
    tasks[r].startFailed
      => /\ tasks[r].route = "local"
         /\ tasks[r].thr \in {"running", "over"}
         /\ tasks[r].note = "warning"

\* the client could not be started and the request has run in-process
C9_Witness ==
  \E r \in Reqs :
    /\ process_worker
    /\ client = NoId
    /\ tasks[r].startFailed
    /\ tasks[r].thr = "over"
    /\ tasks[r].out = "result"

\* ---- C10
\* the step is one in which an idle-timer callback closes the client
TimerCloses ==
  client # NoId /\ client' = NoId /\ process_worker' = process_worker /\ connected' = connected

ClosesClient == client # NoId /\ client' = NoId

\* C11 (as stated): when the worker client is closed, and when the
\* application ends, no process-worker timer is left to fire: the idle
\* auto-shutdown timer is cleared and no warm-up callback is pending.  (The idle
\* timer is a timer of the application's message loop and ends with it; at the
\* end of the application the statement is about the idle scheduler.)
\* Violated: _close_process_worker_client clears the idle timer only; a warm-up
\* callback requested earlier stays in the scheduler and spawns a new worker.
C11_NoTimerAfterClose ==
  [][/\ (ClosesClient => idle_timer' = NoTimer /\ ~warm_pending')
     /\ (~exited /\ exited' => ~warm_pending')]_vars

\* ---- C12
\* C12: during the life of one client _next_id never decreases; an execute
\* call that is given an id is given the current _next_id, which is larger than
\* the id of every call and of every exec frame of that client so far; and the
\* worker never reads an exec frame whose id it has read before from that
\* client: each id it reads is larger than all it has read.
C12_IdsStrictlyIncrease ==
  [][/\ (client # NoId /\ client' = client => next_id' >= next_id)
     /\ \A r \in Reqs :
          /\ (tasks'[r].gen = client' /\ client' # NoId => tasks'[r].id < next_id')
          /\ (tasks[r].thr = "queued" /\ tasks'[r].thr = "assigned"
                => /\ tasks'[r].id = next_id
                   /\ \A x \in Reqs : tasks[x].gen = tasks[r].gen => tasks[x].id < tasks'[r].id)
     /\ \A i \in 1..Len(c2w') : c2w'[i].type = "exec" => c2w'[i].id < next_id'
     /\ (WorkerReadsExec => \A id \in execsSeen : id < Head(c2w).id)]_vars

\* the worker has read two exec frames of one client, of ids 1 and 2, and the
\* call that holds id 2 is an execute of that client
C12_Witness ==
  /\ execsSeen = {1, 2}
  /\ client # NoId
  /\ \E r \in Reqs : tasks[r].gen = client /\ tasks[r].id = 2

\* ---- C13
\* the step is a run of action_cancel_operation with a query executing
CancelsQuery == query_executing /\ query_worker # NoId /\ query_worker' = NoId

\* the step is a run of action_cancel_operation with schema indexing live
CancelsSchema == schema_indexing /\ schema_worker /\ ~schema_worker'

\* the step is a run of action_cancel_operation with neither
CancelsNothing ==
  ~query_executing /\ ~schema_indexing /\ ~schema_indexing' /\ ncmd' # ncmd

AcceptsExec ==
  /\ worker = "up"
  /\ c2w # <<>>
  /\ Head(c2w).type = "exec"
  /\ c2w' = Tail(c2w)
  /\ Head(c2w).id \notin started
  /\ Head(c2w).id \in started'

\* the tunnels running are exactly the one the worker holds, which was
\* created for tunnel_key
OneTunnelHeld ==
  /\ tunnels_running = IF tunnel = NoId THEN {} ELSE {<<tunnel, tunnel_key>>}
  /\ (tunnel = NoId) = (tunnel_key = NoTunnel)
  /\ (worker # "up" => tunnel = NoId)

\* C14: the worker holds at most one tunnel and no other tunnel is running;
\* after an exec is accepted the tunnel held is the one for that exec's key
\* (none for a config without an enabled tunnel), and the key changes at no
\* other step of a living worker; an exec with the key held keeps the very
\* same tunnel and creates none; an exec with another key or with no tunnel
\* leaves the old tunnel stopped.
C14_OneTunnelPerKey ==
  /\ []OneTunnelHeld
  /\ [][/\ (AcceptsExec =>
             /\ tunnel_key' = Head(c2w).tunnel
             /\ (Head(c2w).tunnel = tunnel_key =>
                   UNCHANGED <<tunnel, tunnels_running, tunnels_created>>)
             /\ (Head(c2w).tunnel # tunnel_key =>
                   /\ <<tunnel, tunnel_key>> \notin tunnels_running'
                   /\ tunnel' = IF Head(c2w).tunnel = NoTunnel THEN NoId
                                ELSE tunnels_created + 1
                   /\ tunnels_created' =
                        IF Head(c2w).tunnel = NoTunnel THEN tunnels_created
                        ELSE tunnels_created + 1))
       /\ (tunnel_key' # tunnel_key /\ worker' = "up" /\ client' = client => AcceptsExec)]_vars

\* three execs were accepted by one worker: the second reused the tunnel of
\* the first, the third has another key and only its tunnel is running
C14_Witness ==
  /\ worker = "up"
  /\ started = {1, 2, 3}
  /\ tunnels_created = 2
  /\ tunnel = 2
  /\ tunnel_key = "t2"
  /\ tunnels_running = {<<2, "t2">>}

\* ---- C15
\* the step is one in which the idle scheduler runs _warm
WarmRuns ==
  /\ warm_pending /\ ~warm_pending'
  /\ process_worker' = process_worker
  /\ warm_on_idle' = warm_on_idle
  /\ exited' = exited

\* C15: _warm leaves the client, the worker and the idle timer alone unless
\* process_worker and process_worker_warm_on_idle are both on when it runs; a
\* step that turns either setting off leaves no warm-up callback pending; so a
\* callback is pending only while both settings are on.
C15_WarmOnlyWhenEnabled ==
  [][/\ (WarmRuns /\ ~(process_worker /\ warm_on_idle)
           => UNCHANGED <<workerVars, pipeVars, clientVars, timerVars>>)
     /\ (warm_pending' => process_worker' /\ warm_on_idle')
     /\ ((process_worker /\ ~process_worker') \/ (warm_on_idle /\ ~warm_on_idle')
           => ~warm_pending')]_vars

\* no request was ever made, and the warm-up callback has started the worker
C15_Witness ==
  /\ nreq = 0
  /\ client # NoId
  /\ worker = "up"
  /\ process_worker /\ warm_on_idle
  /\ ~warm_pending


\* ---- C16
\* the query editor is focused in INSERT mode, with no modal screen open and
\* no leader menu pending
InsertEditor(c) ==
  c.focus = "query" /\ c.vim_mode = "insert" /\ ~c.modal_open /\ ~c.leader_pending

\* the verdicts the claim names for INSERT mode
InsertVerdicts ==
  /\ (checked \in {"leader_key", "show_help", "focus_explorer", "focus_results",
                   "new_connection"} => verdict = "FORBIDDEN")
  /\ (checked = "quit" => verdict = "ALLOWED")

BindingTaken(i) ==
  /\ ActionKeyDefs[i].key = key_pressed
  /\ ContextActive(ActionKeyDefs[i].context, ctx)
  /\ CheckAction(ctx, ActionKeyDefs[i].action) = "ALLOWED"

InsideText(text, pos) ==
  /\ pos[1] \in 0..(Len(split(text)) - 1)
  /\ pos[2] \in 0..Len(Line(split(text), pos[1]))

\* C19: whatever registered motion is applied to whatever text, cursor row,
\* cursor column and target character, the position it returns lies inside the
\* text (0 <= row < number of lines, 0 <= col <= length of that line), also
\* when the cursor it was given lies outside the text.
C19_MotionInsideText == motion_key # "" => InsideText(ed_text, motion_pos)

\* a bracket match from a cursor above the text that lands on a later line
C19_Witness ==
  /\ motion_key = "%"
  /\ cursor_row < 0
  /\ cursor_col < 0
  /\ motion_pos[1] > 0
  /\ InsideText(ed_text, motion_pos)

\* C20: in the editor, an undo after an operator restores the text and cursor
\* that existed just before the operator, and a redo directly after that undo
\* restores the text and cursor that existed just after the operator.
C20_UndoRedoRestore ==
  [][/\ (last_edit = "operator" /\ last_edit' = "undo") => Editor' = before_op
     /\ (last_edit = "undo" /\ last_edit' = "redo") => Editor' = after_op]_vars

\* C21: every motion key of the motion set and every motion key an editor
\* action looks up is in the MOTIONS registry, so no motion, yank-line or
\* change-line action fails or does nothing for lack of a registered motion.
C21_MotionsRegistered ==
  /\ motion_key \in MotionSet => motion_key \in MotionKeys
  /\ last_edit \notin {"missing", "KeyError"}

\* the position of the k-th character of the text (k counts from 1)
PosOf(text, k) ==
  LET nl == {j \in 1..(k - 1) : text[j] = Newline}
  IN <<Cardinality(nl), IF nl = {} THEN k - 1 ELSE k - 1 - MaxOf(nl)>>

CountIn(text, ch, a, b) == Cardinality({j \in a..b : text[j] = ch})

\* the partner of the bracket that is the k-th character: the nearest bracket
\* of the other direction and the same type with as many opening as closing
\* brackets of that type from one to the other; 0 when there is none
PartnerOf(text, k) ==
  LET ch == text[k]
      t == BRACKET_PAIRS[ch]
      after == {q \in (k + 1)..Len(text) :
                  text[q] = t /\ CountIn(text, ch, k, q) = CountIn(text, t, k, q)}
      before == {q \in 1..(k - 1) :
                   text[q] = t /\ CountIn(text, ch, q, k) = CountIn(text, t, q, k)}
  IN IF ch \in {"(", "[", "{"}
     THEN IF after = {} THEN 0 ELSE MinOf(after)
     ELSE IF before = {} THEN 0 ELSE MaxOf(before)

\* the brackets at or after the cursor on the cursor's line
BracketsAhead ==
  {k \in 1..Len(ed_text) :
     /\ ed_text[k] \in DOMAIN BRACKET_PAIRS
     /\ PosOf(ed_text, k)[1] = cursor_row
     /\ PosOf(ed_text, k)[2] >= cursor_col}

\* C22: % moves from a bracket that has a partner (the bracket under the
\* cursor, else the first one after it on the line) to the partner that the
\* nesting depth of that bracket type determines, on whatever line it is, and
\* % at the partner leads back to that bracket; from a bracket without a
\* partner, and with no bracket at or after the cursor on its line, the
\* cursor stays and no range is returned.
C22_BracketPairs ==
  motion_key = "%" =>
    IF BracketsAhead = {} \/ PartnerOf(ed_text, MinOf(BracketsAhead \cup {Len(ed_text) + 1})) = 0
    THEN /\ motion_pos = <<cursor_row, cursor_col>>
         /\ ~MatchingBracket(ed_text, cursor_row, cursor_col).range
    ELSE /\ motion_pos = PosOf(ed_text, PartnerOf(ed_text, MinOf(BracketsAhead)))
         /\ MatchingBracket(ed_text, cursor_row, cursor_col).range
         /\ motion_matching_bracket(ed_text, motion_pos[1], motion_pos[2], "")
              = PosOf(ed_text, MinOf(BracketsAhead))

\* a bracket of the other type is passed and the partner is on the next line
C22_Witness ==
  /\ motion_key = "%"
  /\ ed_text = <<"(", "[", Newline, ")">>
  /\ cursor_row = 0
  /\ cursor_col = 0
  /\ motion_pos = <<1, 0>>

\* C23: on the text "alpha beta gamma" with the cursor at (0,0), the motions
\* w, w, b, e, $ applied in sequence yield the positions (0,6), (0,11), (0,6),
\* (0,9), (0,16).
C23_AlphaBetaGamma ==
  /\ trail = <<"w">> => motion_pos = <<0, 6>>
  /\ trail = <<"w", "w">> => motion_pos = <<0, 11>>
  /\ trail = <<"w", "w", "b">> => motion_pos = <<0, 6>>
  /\ trail = <<"w", "w", "b", "e">> => motion_pos = <<0, 9>>
  /\ trail = <<"w", "w", "b", "e", "$">> => motion_pos = <<0, 16>>

C23_Witness ==
  /\ ed_text = AlphaBetaGamma
  /\ trail = <<"w", "w", "b", "e", "$">>
  /\ motion_pos = <<0, 16>>

\* ---- C24
\* the port of a saved endpoint as a number
PortNumber(port) ==
  CASE port = "5432" -> 5432
    [] port = "3306" -> 3306

Matches(conn, container) ==
  \/ conn.name = container.container_name
  \/ /\ conn.tcp_endpoint # <<>>
     /\ conn.db_type = container.db_type
     /\ \/ conn.tcp_endpoint[1].host = "localhost"
        \/ conn.tcp_endpoint[1].host = "127.0.0.1"
        \/ conn.tcp_endpoint[1].host = container.host
     /\ container.port # NoPort
     /\ PortNumber(conn.tcp_endpoint[1].port) = container.port
     /\ \/ container.database = ""
        \/ conn.tcp_endpoint[1].database = container.database

MatchingSaved == {i \in 1..Len(picker.connections) :
                    Matches(picker.connections[i], picker.container)}

\* C24: the handler connects with the first saved connection, in saved order,
\* whose name equals the container's or whose db_type, host (localhost,
\* 127.0.0.1 or the container's), port and database (any when the container has
\* none) agree with it, and with the container's own config only when no saved
\* connection matches.
C24_FirstMatchingSaved ==
  picker.handled =>
    IF MatchingSaved = {}
      THEN picker.config = 0
      ELSE /\ picker.config \in MatchingSaved
           /\ \A i \in MatchingSaved : picker.config <= i

C24_Witness ==
  /\ picker.handled
  /\ picker.config = 2
  /\ picker.connections[2].name # picker.container.container_name
  /\ picker.connections[2].tcp_endpoint[1].host = "127.0.0.1"
  /\ picker.container.database = "app"
  /\ picker.connections[1].tcp_endpoint # <<>>
  /\ picker.connections[1].tcp_endpoint[1].database = ""
  /\ endpoint_matches_any_database(picker.connections[1], picker.container)

\* ---- C25
SourceLoading(s) ==
  IF s = "docker" THEN discovery.loading_docker ELSE discovery.cloud_states[s].loading

SourceInError(s) ==
  IF s = "docker" THEN discovery.docker_status_message # ""
  ELSE discovery.cloud_states[s].status = "error"

SourcePopulated(s) ==
  IF s = "docker" THEN discovery.docker_status_message \in {"", "(no database containers found)"}
  ELSE discovery.cloud_states[s].status = "loaded"

SourceAtWork(s) == discovery.workers[s] \in {"running", "waiting"}

\* C25: on a mounted picker (not headless) every discovery source is either
\* still at work or has completed on its own: not loading, in an error state
\* when it failed, populated when it did not, whatever the other sources did
\* and in whatever order they finished.
C25_SourcesIndependent ==
  discovery.mounted \in {"ok", "AttributeError"} =>
    \A s \in Sources :
      \/ SourceAtWork(s)
      \/ /\ ~SourceLoading(s)
         /\ discovery.outcome[s] = "failed" /\ SourceInError(s)
      \/ /\ ~SourceLoading(s)
         /\ discovery.outcome[s] = "ok" /\ SourcePopulated(s)

\* the same on a picker whose cloud_discovery service defines load_seed_states
C25_WithSeedStates ==
  discovery.mounted = "ok" =>
    \A s \in Sources :
      \/ SourceAtWork(s)
      \/ /\ ~SourceLoading(s)
         /\ discovery.outcome[s] = "failed" /\ SourceInError(s)
      \/ /\ ~SourceLoading(s)
         /\ discovery.outcome[s] = "ok" /\ SourcePopulated(s)

C25_MountRaised ==
  /\ discovery.mounted = "AttributeError"
  /\ \A p \in Providers : discovery.workers[p] = "none" /\ discovery.outcome[p] = "pending"

\* ---- C26
\* C26: whenever importing the driver module fails, whatever exception the
\* import raised and whether or not extra_name and package_name are given,
\* import_driver_module raises MissingDriverError.
C26_AlwaysMissingDriver ==
  (driver_import.called /\ driver_import.outcome # "module") =>
    driver_import.result = "MissingDriverError"

\* with both names given and an ImportError, it does
C26_WrappedImportError ==
  (/\ driver_import.called
   /\ driver_import.extra_name # "" /\ driver_import.package_name # ""
   /\ IsImportError(driver_import.outcome)) =>
    driver_import.result = "MissingDriverError"

C26_RawImportError ==
  /\ driver_import.called
  /\ driver_import.extra_name = ""
  /\ driver_import.outcome = "ModuleNotFoundError"
  /\ driver_import.result = "ModuleNotFoundError"

\* ---- C27
\* C27: every cursor the Azure SQL adapter hands out, whatever database name
\* was asked for, is a cursor on the database the connection was opened on; no
\* USE statement is ever run on the connection; and the adapter reports that it
\* does not support multiple databases.
C27_AzureNeverUses ==
  azure.connected =>
    /\ \A i \in 1..Len(azure.cursors) : azure.cursors[i].database = azure.config_database
    /\ azure.conn.database = azure.config_database
    /\ \A i \in 1..Len(azure.conn.statements) : azure.conn.statements[i][1] # "USE"
    /\ ~supports_multiple_databases

C27_Witness ==
  /\ azure.connected
  /\ azure.config_database = "main"
  /\ azure.requested = <<"other", "", "master">>
  /\ Len(azure.cursors) = MaxCursors

\* ---- C28
\* C28: every cancel frame in the pipe to the worker follows the exec frame of
\* the same id: that exec frame is ahead of it in the pipe or the worker has
\* already read it.
C28_CancelAfterExec ==
  \A k \in 1..Len(c2w) :
    c2w[k].type = "cancel" =>
      \/ c2w[k].id \in execsSeen
      \/ \E j \in 1..(k - 1) : c2w[j].type = "exec" /\ c2w[j].id = c2w[k].id

\* ---- C29
\* the task of the query started last is waiting to run or is running, and has
\* not been cancelled
NewestRunning == nreq > 0 /\ tasks[nreq].coro \in {"pending", "await"}

\* C29: while the task of the query started last is running, query_executing
\* is true, whatever the tasks of earlier queries do when they end.
C29_ExecutingWhileNewestRuns ==
  NewestRunning => query_executing

\* ---- C30
\* C30: the worker never answers an exec of the client with "Worker is busy.":
\* the client's execute calls are serialised by its lock and each returns only
\* with the response to its own exec, so no exec is sent before the response to
\* the one before it was received.
C30_NeverBusy ==
  \A k \in 1..Len(w2c) : w2c[k] # Reply("error", w2c[k].id, "Worker is busy.")

\* ---- C31
\* the execute call of request r has sent its exec frame on the live client and
\* is blocked in recv
AwaitsResponse(r) == tasks[r].gen = client /\ client # NoId /\ tasks[r].thr = "sent"

\* C31: an idle-timer callback never closes the worker client while an execute
\* call on it is blocked waiting for the worker's response.
C31_NoIdleCloseWhileBlocked ==
  [][TimerCloses => ~\E r \in Reqs : AwaitsResponse(r)]_vars

\* ---- C32
\* the step hands request r to the process worker client
RoutedToWorker(r) == tasks[r].coro = "pending" /\ tasks'[r].route = "worker"

\* C32: a query is never handed to a client whose worker process has ended:
\* when _run_query_async chooses the process worker, the worker of the client
\* it uses is running.
C32_NoQueryOnDeadClient ==
  [][\A r \in Reqs : RoutedToWorker(r) => worker' = "up"]_vars

\* ---- C33
\* the step ends the coroutine of request r from a point where it still
\* handles an outcome: it renders a result or an error and saves to history
HandlesOutcome(r) == tasks[r].coro \in {"pending", "await"} /\ tasks'[r].coro = "done"

\* C33: only the coroutine whose handle the application still holds in
\* _query_worker handles an outcome; the coroutine of a query the user has
\* cancelled (its handle cancelled and dropped) ends in its clean-up only,
\* whatever its thread delivers afterwards.
C33_NoOutcomeAfterCancel ==
  [][\A r \in Reqs : HandlesOutcome(r) => query_worker = r]_vars

\* the user cancelled request r, its thread then delivered a result, and the
\* coroutine has not handled it
C33_Witness ==
  \E r \in Reqs :
    /\ tasks[r].coro = "cancelling"
    /\ tasks[r].thr = "over"
    /\ tasks[r].out = "result"
    /\ query_worker # r

\* ---- C34
\* an execute call on the client the application holds is in progress
ExecuteInProgress ==
  \E r \in Reqs : tasks[r].gen = client /\ tasks[r].thr \in {"assigned", "sent"}

\* C34: whenever no execute call is in progress on the client, its current id
\* is unset (so cancel_current finds nothing to send), whichever way the last
\* execute call ended.
C34_IdUnsetWhenIdle ==
  client # NoId /\ ~ExecuteInProgress => client_current_id = NoId

\* ---- C35
\* the worker is about to read a cancel frame that names another id than the
\* one of the query its thread is running
ForeignCancelDue ==
  /\ worker = "up"
  /\ c2w # <<>>
  /\ Head(c2w).type = "cancel"
  /\ current_thread = "running"
  /\ Head(c2w).id # current_id

\* C35: reading a cancel frame whose id differs from the id of the running
\* query leaves that query as it is: not cancelled by the frame, still running
\* under its id.
C35_ForeignCancelIgnored ==
  [][ForeignCancelDue /\ c2w' = Tail(c2w) /\ worker' = "up" =>
       /\ is_cancelled' = is_cancelled
       /\ current_id' = current_id
       /\ current_thread' = "running"]_vars

C35_Witness == ForeignCancelDue /\ ~is_cancelled

\* ---- C36
\* a step in which the worker loop ends
WorkerLoopEnds == worker = "up" /\ worker' = "exited"

\* C36: whenever the worker loop ends, a query whose thread is still alive has
\* been told to cancel, the worker holds no tunnel and none of the tunnels it
\* opened is left running.
C36_LoopEndCleansUp ==
  [][WorkerLoopEnds =>
       /\ (ThreadAlive(current_thread) => is_cancelled')
       /\ tunnel' = NoId
       /\ tunnel_key' = NoTunnel
       /\ tunnels_running' = {}]_vars

\* the loop has ended with a query in flight and after a tunnel was opened
C36_Witness ==
  /\ worker = "exited"
  /\ current_thread = "running"
  /\ is_cancelled
  /\ tunnels_created > 0
  /\ tunnels_running = {}

\* ---- C38
\* the step is a key event
KeyEventStep == key_pressed' # ""

EntersCommandMode == ~command.mode /\ command'.mode

LeavesCommandMode == command.mode /\ ~command'.mode

\* command mode is entered by ":" only, with no modal open and the query
\* editor not in INSERT mode
EnteredByColon ==
  EntersCommandMode =>
    /\ key_pressed' = "colon"
    /\ ~ctx.modal_open
    /\ ~(ctx.focus = "query" /\ ctx.vim_mode = "insert")

\* command mode is left by escape, enter, or backspace/delete on an empty
\* buffer only, and the buffer is empty outside command mode
LeftWithEmptyBuffer ==
  /\ LeavesCommandMode =>
       \/ key_pressed' \in {"escape", "enter"}
       \/ key_pressed' \in {"backspace", "delete"} /\ command.buffer = <<>>
  /\ ~command'.mode => command'.buffer = <<>>

\* C38 as stated: command mode is entered only by ":" with no modal open and
\* the editor not in INSERT mode; while it is active every key press is
\* consumed by the command input and none is resolved to a key binding; it is
\* left only by escape, enter, or backspace/delete on an empty buffer, always
\* with an empty buffer.
C38_EveryKeyConsumed ==
  [][/\ EnteredByColon
     /\ (command.mode /\ KeyEventStep => command'.handled /\ resolved' = "none")
     /\ LeftWithEmptyBuffer]_vars

\* C38 (amended): as stated, except that with a modal open over command mode
\* a key press is not consumed by the command input: on_key returns before
\* it, the key is resolved to no binding and command mode and its buffer stay
\* as they are.
C38_ConsumedUnlessModal ==
  [][/\ EnteredByColon
     /\ (command.mode /\ KeyEventStep =>
           /\ resolved' = "none"
           /\ command'.handled = ~ctx.modal_open
           /\ (ctx.modal_open =>
                 command'.mode /\ command'.buffer = command.buffer))
     /\ LeftWithEmptyBuffer]_vars

\* in command mode "q" was pressed outside the query editor (where it is bound
\* to focus_query) and went to the buffer
C38_Witness ==
  /\ command.mode
  /\ command.handled
  /\ command.buffer = <<"q">>
  /\ key_pressed = "q"
  /\ resolved = "none"
  /\ ctx.focus = "explorer"
  /\ ~ctx.modal_open
  /\ IsAllowed(ctx, "focus_query")

\* ---- C39
\* C39: a key event that cancelled a pending leader menu resolved the key a
\* second time, as an ordinary key of the context without the menu, and a
\* key event cancels the menu exactly when the key resolved to no allowed
\* command of it; ctrl+q pressed while a menu is pending with no modal open
\* resolves to quit.
C39_ResolvedAgainAfterCancel ==
  [][KeyEventStep /\ ctx.leader_pending /\ ~ctx.modal_open =>
       /\ leader_cancelled' = (ResolveAction(key_pressed', ctx) = "none")
       /\ (leader_cancelled' =>
             /\ ~ctx'.leader_pending
             /\ resolved' = ResolveAction(key_pressed', ctx')
             /\ ~\E i \in LeaderCommandsOf(ctx.leader_menu) :
                   BindingAction(LeaderCommandDefs[i]) = resolved')
       /\ (key_pressed' = "ctrl+q" => leader_cancelled' /\ resolved' = "quit")]_vars

\* ctrl+q cancelled the pending menu and reached quit, which the
\* leader-pending state forbade while the menu was pending
C39_Witness ==
  /\ leader_cancelled
  /\ key_pressed = "ctrl+q"
  /\ resolved = "quit"
  /\ ~ctx.leader_pending
  /\ CheckAction([ctx EXCEPT !.leader_pending = TRUE], "quit") = "FORBIDDEN"

\* ---- C40
\* the single printable characters that have a global or navigation binding,
\* and the key that starts command mode
BoundPrintableKeys == {"space", "question_mark", "e", "q", "r", "colon"}

\* the query editor is focused in INSERT mode and the key goes to the router
InsertModeTyping == ctx.focus = "query" /\ ctx.vim_mode = "insert" /\ ~ctx.modal_open

\* C40 as stated: while the query editor is focused in INSERT mode, none of
\* the bound printable characters resolves to an application action or starts
\* command mode.
C40_InsertKeysUnbound ==
  [][InsertModeTyping /\ KeyEventStep /\ key_pressed' \in BoundPrintableKeys =>
       resolved' = "none" /\ ~EntersCommandMode]_vars

\* ---- C37
\* the step is a call of the named method of the client
ClientCalled(name) == pwc'.ncalls = pwc.ncalls + 1 /\ pwc'.last = name

\* what a call may always change: the bookkeeping of the calls themselves
SameClient(c, d) ==
  [c EXCEPT !.ncalls = 0, !.last = "", !.closes = 0] =
    [d EXCEPT !.ncalls = 0, !.last = "", !.closes = 0]

\* C37: on a client on which close() has been called, an execute call returns
\* the error "Worker is closed." at once, writing no frame and taking no id,
\* and a close() call changes nothing.
C37_ClosedClientRefuses ==
  [][pwc.closed =>
       /\ (ClientCalled("execute") =>
             /\ pwc'.error = "Worker is closed."
             /\ ~pwc'.busy
             /\ pwc'.frames = pwc.frames
             /\ pwc'.next_id = pwc.next_id
             /\ pwc'.current_id = pwc.current_id)
       /\ (ClientCalled("close") => SameClient(pwc', pwc))]_vars

\* after two close() calls an execute call was refused; the only frames ever
\* written are those of before the first close
C37_Witness ==
  /\ pwc.closed
  /\ pwc.closes >= 2
  /\ pwc.last = "execute"
  /\ pwc.error = "Worker is closed."
  /\ pwc.frames = <<"exec", "shutdown">>

====
